---- MODULE Spec2Model ----
(***************************************************************************)
(* A model of rply-codec: the BlockIndex content store, the state-stream   *)
(* encoder and decoder (block / superblock deduplication of checkpoints),  *)
(* and the replay container built on them.  Streams are modelled as        *)
(* sequences of bytes; IDs are 0-based as in the source, sequences are     *)
(* 1-based, so the object with ID i is objects[i + 1].                     *)
(***************************************************************************)
EXTENDS Integers, Sequences, FiniteSets, TLC

(***************************************************************************)
(* Bounds of the model.                                                    *)
(***************************************************************************)
\* longest checkpoint handed to the state-stream encoder
MaxLen == 3
\* state-stream records encoded through one context
MaxRecords == 2
\* records that may wait between the encoder and the decoder
MaxWire == 1
\* objects a BlockIndex driven directly may hold
MaxObjects == 4
\* length of the buffer std::io::copy reads through (scaled down)
CopyBufLen == 2
\* tokens given to a decoder that reads tokens of any content
MaxAdvToks == 4
\* longest SuperblockSeq array given to it
MaxSeq == 2
\* frames written to one replay
MaxFrames == 2
\* calls of clock.rs each thread makes
MaxClockOps == 2
\* largest checkpoint size read from a stream that the model allocates
MaxAlloc == 8
\* integers read from a stream are exact below this value
TooBig == 2147483136
\* number of hash buckets of the modelled hash function
HashMod == 2

\* byte values checkpoints are made of
DataBytes == {0, 1}
\* (block_size, superblock_size) pairs a context is created with
Geometries == {<<2, 2>>, <<2, 1>>, <<1, 2>>}
\* object sizes of a BlockIndex driven directly
ObjectSizes == {1, 2}
\* (block_size, superblock_size) pairs of a decoder reading any tokens
AdvGeometries == {<<1, 2>>, <<2, 1>>}
\* the state sizes it is created with
AdvSizes == {0, 1, 3}

(***************************************************************************)
(* State.                                                                  *)
(***************************************************************************)
VARIABLES
    \* a BlockIndex driven directly by its own operations
    bidx,       \* the index
    bret,       \* the last operation on it: what it was given and returned
    bops        \* the operations performed on it so far

IdxVars == <<bidx, bret, bops>>

VARIABLES
    \* a state-stream encoder feeding state-stream decoders
    ectx,       \* the encoder's context
    nrec,       \* records encoded so far (the frame number of the next one)
    elast,      \* the last record encoded: checkpoint, tokens, returned size
    eprev,      \* the record encoded before it
    dctx,       \* dctx[i]: the context of decoder i
    wire,       \* wire[i]: the records decoder i has still to read
    ndec,       \* ndec[i]: records decoder i has read
    dlast       \* dlast[i]: the outcome of decoder i's last record

SSVars == <<ectx, nrec, elast, eprev, dctx, wire, ndec, dlast>>

VARIABLES
    \* a state-stream decoder reading tokens of any content
    adec,       \* the decoder of the current record, with its context
    ain,        \* the token it was last given, and the index sizes before it
    atoks,      \* tokens given so far
    aout        \* the bytes the decoder has yielded for the current record

AdvVars == <<adec, ain, atoks, aout>>

VARIABLES
    \* a replay written by a ReplayEncoder and read back by a ReplayDecoder
    renc,       \* the encoder, with the stream it writes
    rin,        \* what the caller gave it: header, initial state, frames
    rdec,       \* the decoder opened on the finished stream
    ropen,      \* what ReplayDecoder::new returned
    rframe,     \* the Frame the caller hands to read_frame
    rout,       \* the frames read_frame has yielded
    rclosed     \* the encoder has been dropped

RplyVars == <<renc, rin, rdec, ropen, rframe, rout, rclosed>>

VARIABLES
    \* two ReplayEncoders of one process, given the same inputs
    tenc,       \* the two encoders, each with its own stream
    tin,        \* the inputs both are given: header, initial state, frames
    clock       \* TIME_COUNTS of clock.rs, shared by the process

TwinVars == <<tenc, tin, clock>>

VARIABLES
    \* a stream of any content, which the decoder rdec is opened on
    fstream,    \* its bytes
    fmeta       \* how it was laid out: header fields, frames, where it was cut,
                \* and the number of read_frame calls made on it

FileVars == <<fstream, fmeta>>

VARIABLES
    \* the frame counter of an encoder that has written any number of
    \* frames, kept at its full width: a u64 is four 16-bit limbs, a u32 two,
    \* least significant first
    wide        \* frame_number, the header's frame_count, the frame_count
                \* bytes of the stream, finished, the last result

WideVars == <<wide>>

VARIABLES
    \* the statics of clock.rs and the threads of the process that use them
    statics,    \* TIME_ACC, TIME_COUNTS and COUNTS: per cell, the values the
                \* atomic has held, in modification order
    thr         \* per thread: where it stands, the Stopwatch it holds, the
                \* value of each cell it has seen last (what its last add or
                \* load of the cell returned), and what it has added and
                \* dropped so far

ClockVars == <<statics, thr>>

VARIABLES
    \* a Header a caller holds and calls the methods of Header on
    uhdr,       \* the header
    uop         \* the last method called on it

UpVars == <<uhdr, uop>>

vars == <<IdxVars, SSVars, AdvVars, RplyVars, TwinVars, FileVars, WideVars, ClockVars, UpVars>>

(***************************************************************************)
(* Generic helpers.                                                        *)
(***************************************************************************)
Min(a, b) == IF a < b THEN a ELSE b

Zeros(n) == [i \in 1..n |-> 0]

SeqsUpTo(S, n) == UNION {[1..k -> S] : k \in 0..n}

RECURSIVE SumSeq(_)
SumSeq(s) == IF s = <<>> THEN 0 ELSE Head(s) + SumSeq(Tail(s))

RECURSIVE Flatten(_)
Flatten(ss) == IF ss = <<>> THEN <<>> ELSE Head(ss) \o Flatten(Tail(ss))

\* Flatten for elements that all have w members
FlattenEach(ss, w) ==
    [i \in 1..(Len(ss) * w) |-> ss[((i - 1) \div w) + 1][((i - 1) % w) + 1]]

\* s[a+1 .. b] : the Rust slice s[a..b]
Slice(s, a, b) == [i \in 1..(b - a) |-> s[a + i]]

(***************************************************************************)
(* BlockIndex (statestream/blockindex.rs).                                 *)
(* index : hash -> chain of IDs (an empty chain is a vacant entry).        *)
(***************************************************************************)
HashRange == 0..(HashMod - 1)

\* xxh3-64 is outside the repository: any deterministic function of the
\* object's elements stands for it; this one has collisions on purpose.
hash(val) == SumSeq(val) % HashMod

BlockIndex_new(object_size) ==
    LET zeros == Zeros(object_size)
        zero_hash == hash(zeros)
    IN [index |-> [h \in HashRange |-> IF h = zero_hash THEN <<0>> ELSE <<>>],
        object_size |-> object_size,
        objects |-> <<zeros>>,
        hashes |-> <<zero_hash>>]

BlockIndex_len(bi) == Len(bi.objects)

\* a lookup that compares the object with the first ID of the chain only
ChainFind_head_only(bi, chain, obj) ==
    IF chain # <<>> /\ Head(chain) < Len(bi.objects) /\ bi.objects[Head(chain) + 1] = obj
    THEN Head(chain)
    ELSE -1

\* the first ID of the chain whose object equals obj, or -1
RECURSIVE ChainFind(_, _, _)
ChainFind(bi, chain, obj) ==
    IF chain = <<>> THEN -1
    ELSE IF Head(chain) < Len(bi.objects) /\ bi.objects[Head(chain) + 1] = obj
         THEN Head(chain)
         ELSE ChainFind(bi, Tail(chain), obj)

\* a push that stores the object in the place of the last one
BlockIndex_push_over(bi, idx, obj) ==
    [bi EXCEPT !.index[hash(obj)] = Append(@, idx),
               !.objects = [@ EXCEPT ![Len(@)] = obj],
               !.hashes = [@ EXCEPT ![Len(@)] = hash(obj)]]

BlockIndex_push(bi, idx, obj) ==
    LET h == hash(obj)
    IN [bi EXCEPT !.index[h] = Append(@, idx),
                  !.objects = Append(@, obj),
                  !.hashes = Append(@, h)]

\* insert without the equality lookup: every object is appended
BlockIndex_insert_nodedup(bi, obj) ==
    IF Len(obj) # bi.object_size
    THEN [bi |-> bi, index |-> -1, is_new |-> FALSE, panic |-> TRUE]
    ELSE [bi |-> BlockIndex_push(bi, Len(bi.objects), obj),
          index |-> Len(bi.objects), is_new |-> TRUE, panic |-> FALSE]

\* insert that takes the new ID after pushing the object
BlockIndex_insert_id_after_push(bi, obj) ==
    IF Len(obj) # bi.object_size
    THEN [bi |-> bi, index |-> -1, is_new |-> FALSE, panic |-> TRUE]
    ELSE LET found == ChainFind(bi, bi.index[hash(obj)], obj)
         IN IF found >= 0
            THEN [bi |-> bi, index |-> found, is_new |-> FALSE, panic |-> FALSE]
            ELSE [bi |-> BlockIndex_push(bi, Len(bi.objects) + 1, obj),
                  index |-> Len(bi.objects) + 1, is_new |-> TRUE, panic |-> FALSE]

\* insert that takes the first ID of the chain for the object, equal or not
BlockIndex_insert_first_of_chain(bi, obj) ==
    IF Len(obj) # bi.object_size
    THEN [bi |-> bi, index |-> -1, is_new |-> FALSE, panic |-> TRUE]
    ELSE IF bi.index[hash(obj)] # <<>>
         THEN [bi |-> bi, index |-> Head(bi.index[hash(obj)]), is_new |-> FALSE,
               panic |-> FALSE]
         ELSE [bi |-> BlockIndex_push(bi, Len(bi.objects), obj),
               index |-> Len(bi.objects), is_new |-> TRUE, panic |-> FALSE]

\* insert that reports a newly stored object as already known
BlockIndex_insert_never_new(bi, obj) ==
    IF Len(obj) # bi.object_size
    THEN [bi |-> bi, index |-> -1, is_new |-> FALSE, panic |-> TRUE]
    ELSE LET found == ChainFind(bi, bi.index[hash(obj)], obj)
         IN IF found >= 0
            THEN [bi |-> bi, index |-> found, is_new |-> FALSE, panic |-> FALSE]
            ELSE [bi |-> BlockIndex_push(bi, Len(bi.objects), obj),
                  index |-> Len(bi.objects), is_new |-> FALSE, panic |-> FALSE]

BlockIndex_insert(bi, obj) ==
    IF Len(obj) # bi.object_size
    THEN [bi |-> bi, index |-> -1, is_new |-> FALSE, panic |-> TRUE]
    ELSE LET found == ChainFind(bi, bi.index[hash(obj)], obj)
         IN IF found >= 0
            THEN [bi |-> bi, index |-> found, is_new |-> FALSE, panic |-> FALSE]
            ELSE [bi |-> BlockIndex_push(bi, Len(bi.objects), obj),
                  index |-> Len(bi.objects), is_new |-> TRUE, panic |-> FALSE]

BlockIndex_insert_exact(bi, idx, obj) ==
    IF Len(obj) # bi.object_size
    THEN [bi |-> bi, ret |-> "panic"]
    ELSE IF Len(bi.objects) # idx
         THEN [bi |-> bi, ret |-> "false"]
         ELSE [bi |-> BlockIndex_push(bi, idx, obj), ret |-> "true"]

BlockIndex_has(bi, which) == which >= 0 /\ which < Len(bi.objects)

\* only evaluated where BlockIndex_has holds; elsewhere the access panics
BlockIndex_get(bi, which) == bi.objects[which + 1]

\* clear that drops the zero object as well
BlockIndex_clear_all(bi) ==
    [bi EXCEPT !.index = [h \in HashRange |-> <<>>],
               !.objects = <<>>,
               !.hashes = <<>>]

BlockIndex_clear(bi) ==
    [bi EXCEPT !.index = [h \in HashRange |->
                             IF h = bi.hashes[1] THEN <<0>> ELSE <<>>],
               !.objects = SubSeq(@, 1, 1),
               !.hashes = SubSeq(@, 1, 1)]

(***************************************************************************)
(* MessagePack framing as used by statestream.rs through rmp: uints in the *)
(* most compact form, bin8 and fixarray / array16 headers.  A reader       *)
(* result is [ok, v, pos]; ok = FALSE is an I/O error (end of stream or a  *)
(* marker of another type).                                                *)
(***************************************************************************)
write_uint(v) ==
    IF v < 128 THEN <<v>>
    ELSE IF v < 256 THEN <<204, v>>
    ELSE <<205, (v \div 256) % 256, v % 256>>

write_bin_len(n) == IF n < 256 THEN <<196, n>> ELSE <<197, (n \div 256) % 256, n % 256>>

write_array_len(n) == IF n < 16 THEN <<144 + n>> ELSE <<220, (n \div 256) % 256, n % 256>>

RFail(pos) == [ok |-> FALSE, v |-> 0, pos |-> pos]

read_int(b, pos) ==
    IF pos >= Len(b) THEN RFail(pos)
    ELSE LET m == b[pos + 1]
         IN IF m < 128 THEN [ok |-> TRUE, v |-> m, pos |-> pos + 1]
            ELSE IF m = 204
                 THEN IF pos + 1 >= Len(b) THEN RFail(pos)
                      ELSE [ok |-> TRUE, v |-> b[pos + 2], pos |-> pos + 2]
            ELSE IF m = 205
                 THEN IF pos + 2 >= Len(b) THEN RFail(pos)
                      ELSE [ok |-> TRUE, v |-> b[pos + 2] * 256 + b[pos + 3],
                            pos |-> pos + 3]
            ELSE RFail(pos)

read_bin_len(b, pos) ==
    IF pos >= Len(b) THEN RFail(pos)
    ELSE LET m == b[pos + 1]
         IN IF m = 196
            THEN IF pos + 1 >= Len(b) THEN RFail(pos)
                 ELSE [ok |-> TRUE, v |-> b[pos + 2], pos |-> pos + 2]
            ELSE IF m = 197
                 THEN IF pos + 2 >= Len(b) THEN RFail(pos)
                      ELSE [ok |-> TRUE, v |-> b[pos + 2] * 256 + b[pos + 3],
                            pos |-> pos + 3]
            ELSE RFail(pos)

read_array_len(b, pos) ==
    IF pos >= Len(b) THEN RFail(pos)
    ELSE LET m == b[pos + 1]
         IN IF m >= 144 /\ m < 160 THEN [ok |-> TRUE, v |-> m - 144, pos |-> pos + 1]
            ELSE IF m = 220
                 THEN IF pos + 2 >= Len(b) THEN RFail(pos)
                      ELSE [ok |-> TRUE, v |-> b[pos + 2] * 256 + b[pos + 3],
                            pos |-> pos + 3]
            ELSE RFail(pos)

\* n successive uints; v is their sequence
RECURSIVE read_ints(_, _, _)
read_ints(b, pos, n) ==
    IF n = 0 THEN [ok |-> TRUE, v |-> <<>>, pos |-> pos]
    ELSE LET r == read_int(b, pos)
         IN IF ~r.ok THEN [ok |-> FALSE, v |-> <<>>, pos |-> r.pos]
            ELSE LET rest == read_ints(b, r.pos, n - 1)
                 IN [ok |-> rest.ok, v |-> <<r.v>> \o rest.v, pos |-> rest.pos]

read_exact(b, pos, n) ==
    IF pos + n > Len(b) THEN [ok |-> FALSE, v |-> <<>>, pos |-> pos]
    ELSE [ok |-> TRUE, v |-> Slice(b, pos, pos + n), pos |-> pos + n]

(***************************************************************************)
(* State-stream tokens (statestream.rs, SSToken) and their wire form.      *)
(***************************************************************************)
SSToken_Start == 0
SSToken_NewBlock == 1
SSToken_NewSuperblock == 2
SSToken_SuperblockSeq == 3

TokStart(frame) == [t |-> SSToken_Start, frame |-> frame]
TokNewBlock(index, len, data) ==
    [t |-> SSToken_NewBlock, index |-> index, len |-> len, data |-> data]
TokNewSuperblock(index, len, data) ==
    [t |-> SSToken_NewSuperblock, index |-> index, len |-> len, data |-> data]
TokSuperblockSeq(len, data) == [t |-> SSToken_SuperblockSeq, len |-> len, data |-> data]
\* a token byte outside the enum
TokOther(t) == [t |-> t]

WriteUints(s) == Flatten([i \in 1..Len(s) |-> write_uint(s[i])])

TokenBytes(tok) ==
    IF tok.t = SSToken_Start THEN write_uint(tok.t) \o write_uint(tok.frame)
    ELSE IF tok.t = SSToken_NewBlock
         THEN write_uint(tok.t) \o write_uint(tok.index) \o write_bin_len(tok.len)
              \o tok.data
    ELSE IF tok.t = SSToken_NewSuperblock
         THEN write_uint(tok.t) \o write_uint(tok.index) \o write_array_len(tok.len)
              \o WriteUints(tok.data)
    ELSE IF tok.t = SSToken_SuperblockSeq
         THEN write_uint(tok.t) \o write_array_len(tok.len) \o WriteUints(tok.data)
    ELSE write_uint(tok.t)

TokensBytes(toks) == Flatten([i \in 1..Len(toks) |-> TokenBytes(toks[i])])

(***************************************************************************)
(* The state-stream context (statestream.rs, Ctx).                         *)
(***************************************************************************)
Ctx_new(block_size, superblock_size) ==
    [block_size |-> block_size,
     superblock_size |-> superblock_size,
     last_state |-> <<>>,
     last_superseq |-> <<>>,
     block_index |-> BlockIndex_new(block_size),
     superblock_index |-> BlockIndex_new(superblock_size)]

(***************************************************************************)
(* The state-stream encoder (statestream.rs, Encoder::encode_checkpoint).  *)
(* The body of encode_checkpoint after the Start token is not in the       *)
(* source tree; it follows the encoder algorithm of the specification,     *)
(* section 4.B, over the BlockIndex of the source.                         *)
(***************************************************************************)
\* K = ceil(N / (block_size * superblock_size))
SuperblockCount(ctx, n) ==
    LET sb == ctx.block_size * ctx.superblock_size IN (n + sb - 1) \div sb

\* block b (0-based) of the checkpoint, zero-padded to block_size
BlockAt(ctx, checkpoint, b) ==
    [i \in 1..ctx.block_size |->
        IF b * ctx.block_size + i <= Len(checkpoint)
        THEN checkpoint[b * ctx.block_size + i] ELSE 0]

PaddedBlocks(ctx, checkpoint) ==
    [b \in 1..(SuperblockCount(ctx, Len(checkpoint)) * ctx.superblock_size) |->
        BlockAt(ctx, checkpoint, b - 1)]

\* the result of inserting objs[i], r, put before the result for the rest
InsertAllJoin(r, obj, rest) ==
    [bi |-> rest.bi,
     ids |-> <<r.index>> \o rest.ids,
     news |-> (IF r.is_new THEN <<[index |-> r.index, obj |-> obj]>> ELSE <<>>)
              \o rest.news]

RECURSIVE InsertAll(_, _, _)

InsertAllFrom(r, objs, i) == InsertAllJoin(r, objs[i], InsertAll(r.bi, objs, i + 1))

\* insert objs[i..] in order: the ID of each object, and the new ones
InsertAll(bi, objs, i) ==
    IF i > Len(objs) THEN [bi |-> bi, ids |-> <<>>, news |-> <<>>]
    ELSE InsertAllFrom(BlockIndex_insert(bi, objs[i]), objs, i)

\* superblock s (1-based) as the array of the IDs of its blocks
SuperblocksOf(ctx, k, ids) ==
    [s \in 1..k |-> [j \in 1..ctx.superblock_size |->
                        ids[(s - 1) * ctx.superblock_size + j]]]

\* the tokens of a record, given the new blocks and the new superblocks
RecordTokens(ctx, frame, k, newblocks, newsuperblocks, superseq) ==
    <<TokStart(frame)>>
    \o [i \in 1..Len(newblocks) |->
           TokNewBlock(newblocks[i].index, ctx.block_size, newblocks[i].obj)]
    \o [i \in 1..Len(newsuperblocks) |->
           TokNewSuperblock(newsuperblocks[i].index, ctx.superblock_size,
                            newsuperblocks[i].obj)]
    \o <<TokSuperblockSeq(k, superseq)>>

EncoderResult(ctx, tokens, bytes) ==
    [ctx |-> ctx, tokens |-> tokens, bytes |-> bytes, ret |-> Len(bytes)]

EncoderEmit(ctx, tokens) == EncoderResult(ctx, tokens, TokensBytes(tokens))

EncoderSuperblocks(ctx, frame, k, rb, rs) ==
    EncoderEmit([ctx EXCEPT !.block_index = rb.bi,
                            !.superblock_index = rs.bi,
                            !.last_superseq = rs.ids],
                RecordTokens(ctx, frame, k, rb.news, rs.news, rs.ids))

EncoderBlocks(ctx, frame, k, rb) ==
    EncoderSuperblocks(ctx, frame, k, rb,
                       InsertAll(ctx.superblock_index, SuperblocksOf(ctx, k, rb.ids), 1))

Encoder_encode_checkpoint(ctx, checkpoint, frame) ==
    EncoderBlocks(ctx, frame, SuperblockCount(ctx, Len(checkpoint)),
                  InsertAll(ctx.block_index, PaddedBlocks(ctx, checkpoint), 1))

(***************************************************************************)
(* The state-stream decoder (statestream.rs, Decoder).  status is "run"    *)
(* inside the token loop of read, "ok" once it has finished, "panic" after *)
(* an out-of-bounds access, and otherwise the error read returned: "eof"   *)
(* is the io::Error of read_exact (kind UnexpectedEof), "io" an rmp read   *)
(* error wrapped by io::Error::other, the rest SSError values wrapped so.  *)
(***************************************************************************)
Decoder_new(ctx, state_size, pos) ==
    [ctx |-> ctx, state_size |-> state_size, finished |-> FALSE,
     readout_cursor |-> 0, state |-> "WaitForStart", frame |-> 0,
     pos |-> pos, status |-> "new"]

Decoder_fail(d, pos, status) == [d EXCEPT !.pos = pos, !.status = status]

\* Vec::resize(n, 0)
Resize(v, n) == [i \in 1..n |-> IF i <= Len(v) THEN v[i] ELSE 0]

\* the inner loop with every superblock laid at the start of the state
RECURSIVE CopyBlocks_at_start(_, _, _, _, _, _)
CopyBlocks_at_start(ctx, last_state, superblock_data, superblock_i, block_i, state_size) ==
    IF block_i >= Len(superblock_data) THEN [last_state |-> last_state, panic |-> FALSE]
    ELSE LET block_start == Min(block_i * ctx.block_size, state_size)
             block_end == Min(block_start + ctx.block_size, state_size)
             block_id == superblock_data[block_i + 1]
         IN IF ~BlockIndex_has(ctx.block_index, block_id)
            THEN [last_state |-> last_state, panic |-> TRUE]
            ELSE IF block_end <= block_start
                 THEN [last_state |-> last_state, panic |-> FALSE]
                 ELSE CopyBlocks_at_start(ctx,
                          [i \in 1..Len(last_state) |->
                              IF i > block_start /\ i <= block_end
                              THEN BlockIndex_get(ctx.block_index, block_id)[i - block_start]
                              ELSE last_state[i]],
                          superblock_data, superblock_i, block_i + 1, state_size)

\* the inner loop of the SuperblockSeq arm, from block position block_i
RECURSIVE CopyBlocks(_, _, _, _, _, _)
CopyBlocks(ctx, last_state, superblock_data, superblock_i, block_i, state_size) ==
    IF block_i >= Len(superblock_data) THEN [last_state |-> last_state, panic |-> FALSE]
    ELSE LET block_byte_size == ctx.block_size
             superblock_byte_size == ctx.superblock_size * block_byte_size
             block_start == Min(superblock_i * superblock_byte_size
                                + block_i * block_byte_size, state_size)
             block_end == Min(block_start + block_byte_size, state_size)
             block_id == superblock_data[block_i + 1]
         IN IF ~BlockIndex_has(ctx.block_index, block_id)
            THEN [last_state |-> last_state, panic |-> TRUE]
            ELSE IF block_end <= block_start
                 THEN [last_state |-> last_state, panic |-> FALSE]
                 ELSE LET block_bytes == BlockIndex_get(ctx.block_index, block_id)
                      IN CopyBlocks(ctx,
                             [i \in 1..Len(last_state) |->
                                 IF i > block_start /\ i <= block_end
                                 THEN block_bytes[i - block_start]
                                 ELSE last_state[i]],
                             superblock_data, superblock_i, block_i + 1, state_size)

SuperseqResult(status, pos, last_state, superseq) ==
    [status |-> status, pos |-> pos, last_state |-> last_state, superseq |-> superseq]

RECURSIVE ReadSuperseq(_, _, _, _, _, _, _, _)

\* after the blocks of entry superblock_i, whose ID is id, have been copied
ReadSuperseqCopied(ctx, b, pos, c, superseq, superblock_i, arr_len, state_size, id) ==
    IF c.panic THEN SuperseqResult("panic", pos, c.last_state, superseq)
    ELSE ReadSuperseq(ctx, b, pos, c.last_state, Append(superseq, id),
                      superblock_i + 1, arr_len, state_size)

\* an entry naming an unknown superblock is skipped instead of being fatal
ReadSuperseqEntry_lenient(ctx, b, r, last_state, superseq, superblock_i, arr_len, state_size) ==
    IF ~r.ok THEN SuperseqResult("io", r.pos, last_state, superseq)
    ELSE IF ~BlockIndex_has(ctx.superblock_index, r.v)
         THEN ReadSuperseq(ctx, b, r.pos, last_state, Append(superseq, r.v),
                           superblock_i + 1, arr_len, state_size)
         ELSE ReadSuperseqCopied(ctx, b, r.pos,
                  CopyBlocks(ctx, last_state, BlockIndex_get(ctx.superblock_index, r.v),
                             superblock_i, 0, state_size),
                  superseq, superblock_i, arr_len, state_size, r.v)

\* after the ID of entry superblock_i has been read as r
ReadSuperseqEntry(ctx, b, r, last_state, superseq, superblock_i, arr_len, state_size) ==
    IF ~r.ok THEN SuperseqResult("io", r.pos, last_state, superseq)
    ELSE IF ~BlockIndex_has(ctx.superblock_index, r.v)
         THEN SuperseqResult("panic", r.pos, last_state, superseq)
         ELSE ReadSuperseqCopied(ctx, b, r.pos,
                  CopyBlocks(ctx, last_state, BlockIndex_get(ctx.superblock_index, r.v),
                             superblock_i, 0, state_size),
                  superseq, superblock_i, arr_len, state_size, r.v)

\* the outer loop of the SuperblockSeq arm, from entry superblock_i
ReadSuperseq(ctx, b, pos, last_state, superseq, superblock_i, arr_len, state_size) ==
    IF superblock_i >= arr_len THEN SuperseqResult("ok", pos, last_state, superseq)
    ELSE ReadSuperseqEntry(ctx, b, read_int(b, pos), last_state, superseq,
                           superblock_i, arr_len, state_size)

\* (WaitForStart, Start)
Decoder_Start(d, b, pos) ==
    LET r == read_int(b, pos)
    IN IF ~r.ok THEN Decoder_fail(d, r.pos, "io")
       ELSE [d EXCEPT !.frame = r.v, !.state = "WaitForSuperblockSeq", !.pos = r.pos]

\* the NewBlock arm without the comparison of bin_len with block_size
Decoder_NewBlock_any_len(d, b, pos) ==
    LET ridx == read_int(b, pos)
        rlen == read_bin_len(b, ridx.pos)
        rbuf == read_exact(b, rlen.pos, d.ctx.block_size)
        ins == BlockIndex_insert_exact(d.ctx.block_index, ridx.v, rbuf.v)
    IN IF ~ridx.ok THEN Decoder_fail(d, ridx.pos, "io")
       ELSE IF ~rlen.ok THEN Decoder_fail(d, rlen.pos, "io")
       ELSE IF ~rbuf.ok THEN Decoder_fail(d, rbuf.pos, "eof")
       ELSE IF ins.ret # "true" THEN Decoder_fail(d, rbuf.pos, "BadBlockInsert")
       ELSE [d EXCEPT !.ctx.block_index = ins.bi, !.pos = rbuf.pos]

\* (WaitForSuperblockSeq, NewBlock)
Decoder_NewBlock(d, b, pos) ==
    LET ridx == read_int(b, pos)
        rlen == read_bin_len(b, ridx.pos)
        rbuf == read_exact(b, rlen.pos, d.ctx.block_size)
        ins == BlockIndex_insert_exact(d.ctx.block_index, ridx.v, rbuf.v)
    IN IF ~ridx.ok THEN Decoder_fail(d, ridx.pos, "io")
       ELSE IF ~rlen.ok THEN Decoder_fail(d, rlen.pos, "io")
       ELSE IF rlen.v # d.ctx.block_size THEN Decoder_fail(d, rlen.pos, "BlockWrongSize")
       ELSE IF ~rbuf.ok THEN Decoder_fail(d, rbuf.pos, "eof")
       ELSE IF ins.ret # "true" THEN Decoder_fail(d, rbuf.pos, "BadBlockInsert")
       ELSE [d EXCEPT !.ctx.block_index = ins.bi, !.pos = rbuf.pos]

\* (WaitForSuperblockSeq, NewSuperblock)
Decoder_NewSuperblock(d, b, pos) ==
    LET ridx == read_int(b, pos)
        rlen == read_array_len(b, ridx.pos)
        rarr == read_ints(b, rlen.pos, d.ctx.superblock_size)
        ins == BlockIndex_insert_exact(d.ctx.superblock_index, ridx.v, rarr.v)
    IN IF ~ridx.ok THEN Decoder_fail(d, ridx.pos, "io")
       ELSE IF ~rlen.ok THEN Decoder_fail(d, rlen.pos, "io")
       ELSE IF rlen.v # d.ctx.superblock_size
            THEN Decoder_fail(d, rlen.pos, "SuperblockWrongSize")
       ELSE IF ~rarr.ok THEN Decoder_fail(d, rarr.pos, "io")
       ELSE IF ins.ret # "true" THEN Decoder_fail(d, rarr.pos, "BadSuperblockInsert")
       ELSE [d EXCEPT !.ctx.superblock_index = ins.bi, !.pos = rarr.pos]

\* the end of the SuperblockSeq arm, r being the outcome of its loop
Decoder_SuperblockSeqEnd(d, r) ==
    IF r.status # "ok"
    THEN [d EXCEPT !.ctx.last_state = r.last_state, !.pos = r.pos, !.status = r.status]
    ELSE [d EXCEPT !.ctx.last_state = r.last_state,
                   !.ctx.last_superseq = r.superseq,
                   !.state = "Finished", !.finished = TRUE,
                   !.pos = r.pos, !.status = "ok"]

Decoder_SuperblockSeqLen(d, b, rlen) ==
    IF ~rlen.ok THEN Decoder_fail(d, rlen.pos, "io")
    ELSE Decoder_SuperblockSeqEnd(d,
             ReadSuperseq(d.ctx, b, rlen.pos, Resize(d.ctx.last_state, d.state_size),
                          <<>>, 0, rlen.v, d.state_size))

\* (WaitForSuperblockSeq, SuperblockSeq)
Decoder_SuperblockSeq(d, b, pos) == Decoder_SuperblockSeqLen(d, b, read_array_len(b, pos))

\* the loop body without the WaitForStart check of the block, superblock
\* and sequence arms
Decoder_iter_no_start_needed(d, b) ==
    LET rtok == read_int(b, d.pos)
    IN IF ~rtok.ok \/ rtok.v >= 256 THEN Decoder_fail(d, rtok.pos, "io")
       ELSE IF rtok.v > SSToken_SuperblockSeq THEN Decoder_fail(d, rtok.pos, "InvalidToken")
       ELSE IF d.state = "WaitForStart" /\ rtok.v = SSToken_Start
            THEN Decoder_Start(d, b, rtok.pos)
       ELSE IF rtok.v = SSToken_Start THEN Decoder_fail(d, rtok.pos, "TooManyStarts")
       ELSE IF rtok.v = SSToken_NewBlock THEN Decoder_NewBlock(d, b, rtok.pos)
       ELSE IF rtok.v = SSToken_NewSuperblock THEN Decoder_NewSuperblock(d, b, rtok.pos)
       ELSE Decoder_SuperblockSeq(d, b, rtok.pos)

\* the loop body whose Start arm matches in every state
Decoder_iter_restart(d, b) ==
    LET rtok == read_int(b, d.pos)
    IN IF ~rtok.ok \/ rtok.v >= 256 THEN Decoder_fail(d, rtok.pos, "io")
       ELSE IF rtok.v > SSToken_SuperblockSeq THEN Decoder_fail(d, rtok.pos, "InvalidToken")
       ELSE IF rtok.v = SSToken_Start THEN Decoder_Start(d, b, rtok.pos)
       ELSE IF d.state = "WaitForSuperblockSeq" /\ rtok.v = SSToken_NewBlock
            THEN Decoder_NewBlock(d, b, rtok.pos)
       ELSE IF d.state = "WaitForSuperblockSeq" /\ rtok.v = SSToken_NewSuperblock
            THEN Decoder_NewSuperblock(d, b, rtok.pos)
       ELSE IF d.state = "WaitForSuperblockSeq" /\ rtok.v = SSToken_SuperblockSeq
            THEN Decoder_SuperblockSeq(d, b, rtok.pos)
       ELSE Decoder_fail(d, rtok.pos, "ParseError")

\* one iteration of the token loop of read
Decoder_iter(d, b) ==
    LET rtok == read_int(b, d.pos)
    IN IF ~rtok.ok \/ rtok.v >= 256 THEN Decoder_fail(d, rtok.pos, "io")
       ELSE IF rtok.v > SSToken_SuperblockSeq THEN Decoder_fail(d, rtok.pos, "InvalidToken")
       ELSE IF d.state = "WaitForStart" /\ rtok.v = SSToken_Start
            THEN Decoder_Start(d, b, rtok.pos)
       ELSE IF rtok.v = SSToken_Start THEN Decoder_fail(d, rtok.pos, "TooManyStarts")
       ELSE IF d.state = "WaitForSuperblockSeq" /\ rtok.v = SSToken_NewBlock
            THEN Decoder_NewBlock(d, b, rtok.pos)
       ELSE IF d.state = "WaitForSuperblockSeq" /\ rtok.v = SSToken_NewSuperblock
            THEN Decoder_NewSuperblock(d, b, rtok.pos)
       ELSE IF d.state = "WaitForSuperblockSeq" /\ rtok.v = SSToken_SuperblockSeq
            THEN Decoder_SuperblockSeq(d, b, rtok.pos)
       ELSE Decoder_fail(d, rtok.pos, "ParseError")

\* read entered with finished = FALSE: fresh loop locals
Decoder_begin(d) == [d EXCEPT !.state = "WaitForStart", !.frame = 0, !.status = "run"]

RECURSIVE Decoder_loop(_, _)
Decoder_loop(d, b) == IF d.status # "run" THEN d ELSE Decoder_loop(Decoder_iter(d, b), b)

\* readout that always copies from the start of last_state
Decoder_readout_nocursor(d, outlen) ==
    LET sz == Min(outlen, Len(d.ctx.last_state) - d.readout_cursor)
    IN [d |-> [d EXCEPT !.readout_cursor = @ + sz],
        out |-> Slice(d.ctx.last_state, 0, sz)]

\* readout into a buffer of outlen bytes
Decoder_readout(d, outlen) ==
    LET sz == Min(outlen, Len(d.ctx.last_state) - d.readout_cursor)
    IN [d |-> [d EXCEPT !.readout_cursor = @ + sz],
        out |-> Slice(d.ctx.last_state, d.readout_cursor, d.readout_cursor + sz)]

\* the end of read, e being the decoder after the token loop
Decoder_read_end(e, outlen) ==
    IF e.status = "ok" THEN Decoder_readout(e, outlen) ELSE [d |-> e, out |-> <<>>]

\* read without the finished branch: every call runs the token loop
Decoder_read_reparse(d, b, outlen) ==
    Decoder_read_end(Decoder_loop(Decoder_begin(d), b), outlen)

\* one call of read with an output buffer of outlen bytes
Decoder_read(d, b, outlen) ==
    IF d.finished
    THEN IF d.readout_cursor = d.state_size THEN [d |-> d, out |-> <<>>]
         ELSE Decoder_readout(d, outlen)
    ELSE Decoder_read_end(Decoder_loop(Decoder_begin(d), b), outlen)

CopyResult(d, dst, status) == [d |-> d, dst |-> dst, status |-> status]

\* dst with src written at offset written
WriteInto(dst, written, src) ==
    [i \in 1..Len(dst) |->
        IF i > written /\ i <= written + Len(src) THEN src[i - written] ELSE dst[i]]

RECURSIVE io_copy(_, _, _, _, _)

\* what std::io::copy does with the outcome r of one read
io_copy_read(r, b, buflen, dst, written) ==
    IF r.d.status # "ok" THEN CopyResult(r.d, dst, r.d.status)
    ELSE IF r.out = <<>> THEN CopyResult(r.d, dst, "ok")
    ELSE IF written + Len(r.out) > Len(dst) THEN CopyResult(r.d, dst, "io")
    ELSE io_copy(r.d, b, buflen, WriteInto(dst, written, r.out), written + Len(r.out))

\* std::io::copy from the decoder into a cursor over dst: reads through a
\* buffer of buflen bytes until a read yields nothing
io_copy(d, b, buflen, dst, written) ==
    io_copy_read(Decoder_read(d, b, buflen), b, buflen, dst, written)

(***************************************************************************)
(* The replay container (rply.rs).  A stream is its bytes and a position;  *)
(* integers are little-endian.                                             *)
(***************************************************************************)
HEADERV2_LEN_BYTES == 40
MAGIC == 1112757810

FrameToken_Regular == 102
FrameToken_Checkpoint == 99
FrameToken_Checkpoint2 == 67

Compression_None == 0
Compression_Zstd == 2
Encoding_Raw == 0
Encoding_Statestream == 1

\* the largest values of u8 and u16, beyond which u8::try_from and
\* u16::try_from fail
U8_MAX == 255
U16_MAX == 65535

\* WriteBytesExt::write_uN::<LittleEndian>: the k low bytes of n
RECURSIVE LE(_, _)
LE(n, k) == IF k = 0 THEN <<>> ELSE <<n % 256>> \o LE(n \div 256, k - 1)

\* the unsigned value of little-endian bytes; values of TooBig or more are
\* all read as TooBig
RECURSIVE LEValue(_)
LEValue(bs) ==
    IF bs = <<>> THEN 0
    ELSE LET hi == LEValue(Tail(bs))
         IN IF hi >= TooBig \div 256 THEN TooBig ELSE Head(bs) + 256 * hi

\* ReadBytesExt::read_uN::<LittleEndian> of k bytes at pos
read_le(b, pos, k) ==
    IF pos + k > Len(b) THEN RFail(pos)
    ELSE [ok |-> TRUE, v |-> LEValue(Slice(b, pos, pos + k)), pos |-> pos + k]

\* u16 as i16
I16(v) == IF v >= 32768 THEN v - 65536 ELSE v

\* Write at position pos of a Cursor over a growable buffer
WriteAt(file, pos, bytes) ==
    [i \in 1..(IF pos + Len(bytes) > Len(file) THEN pos + Len(bytes) ELSE Len(file)) |->
        IF i > pos /\ i <= pos + Len(bytes) THEN bytes[i - pos]
        ELSE IF i <= Len(file) THEN file[i] ELSE 0]

\* Header::V2 with the given fields
HeaderV2(version, content_crc, initial_state_size, identifier, frame_count, block_size, superblock_size, interval, threshold, compression) ==
    [kind |-> "V2", version |-> version, content_crc |-> content_crc,
     initial_state_size |-> initial_state_size, identifier |-> identifier,
     frame_count |-> frame_count, block_size |-> block_size,
     superblock_size |-> superblock_size,
     checkpoint_commit_interval |-> interval,
     checkpoint_commit_threshold |-> threshold,
     checkpoint_compression |-> compression]

\* Header::V0V1
HeaderV0V1(version, content_crc, initial_state_size, identifier) ==
    [kind |-> "V0V1", version |-> version, content_crc |-> content_crc,
     initial_state_size |-> initial_state_size, identifier |-> identifier]

Header_block_size(h) == IF h.kind = "V0V1" THEN 0 ELSE h.block_size
Header_superblock_size(h) == IF h.kind = "V0V1" THEN 0 ELSE h.superblock_size

\* an upgrade that also stamps the version of the new layout
Header_upgrade_stamped(h) ==
    IF h.kind = "V0V1"
    THEN HeaderV2(2, h.content_crc, h.initial_state_size, h.identifier,
                  0, 0, 0, 0, 0, Compression_None)
    ELSE h

Header_upgrade(h) ==
    IF h.kind = "V0V1"
    THEN HeaderV2(h.version, h.content_crc, h.initial_state_size, h.identifier,
                  0, 0, 0, 0, 0, Compression_None)
    ELSE h

Header_set_frame_count(h, frames) == [Header_upgrade(h) EXCEPT !.frame_count = frames]

\* the 40 bytes write_header writes at offset 0
HeaderBytes(h) ==
    LE(MAGIC, 4) \o LE(2, 4) \o LE(h.content_crc, 4) \o LE(h.initial_state_size, 4)
    \o LE(h.identifier, 8) \o LE(h.frame_count, 4) \o LE(h.block_size, 4)
    \o LE(h.superblock_size, 4)
    \o LE(h.checkpoint_commit_interval * 16777216
          + h.checkpoint_commit_threshold * 65536
          + h.checkpoint_compression * 256, 4)

Frame_default ==
    [key_events |-> <<>>, input_events |-> <<>>, checkpoint_bytes |-> <<>>,
     checkpoint_compression |-> Compression_None, checkpoint_encoding |-> Encoding_Raw]

KeyData_default == [down |-> 0, modf |-> 0, code |-> 0, chr |-> 0]
InputData_default == [port |-> 0, device |-> 0, idx |-> 0, id |-> 0, val |-> 0]

KeyBytes(evt) == <<evt.down, 0>> \o LE(evt.modf, 2) \o LE(evt.code, 4) \o LE(evt.chr, 4)
InputBytes(evt) ==
    <<evt.port, evt.device, evt.idx, 0>> \o LE(evt.id, 2) \o LE(evt.val % 65536, 2)

(***************************************************************************)
(* ReplayEncoder.  Every frame number and size of the model fits in 32     *)
(* bits, so the u32 conversions of the code succeed; the conversion of a   *)
(* frame number that does not fit is modelled in SpecWide.                 *)
(***************************************************************************)
ReplayEncoder_write_header(e) ==
    [e EXCEPT !.header = Header_set_frame_count(e.header, e.frame_number),
              !.file = WriteAt(e.file, 0,
                               HeaderBytes(Header_set_frame_count(e.header, e.frame_number)))]

\* the sizes written over the placeholders with the stream left behind them
EncodeCheckpointSizes_no_seek(e, size_pos, r) ==
    [e EXCEPT !.file = WriteAt(WriteAt(e.file, size_pos + 8, r.bytes), size_pos,
                               LE(r.ret, 4) \o LE(r.ret, 4)),
              !.pos = size_pos + 8,
              !.ss_state = r.ctx]

\* after the state-stream encoder returned r: the two sizes are written
\* over the placeholders at size_pos and the position returns to the end
EncodeCheckpointSizes(e, size_pos, r) ==
    [e EXCEPT !.file = WriteAt(WriteAt(e.file, size_pos + 8, r.bytes), size_pos,
                               LE(r.ret, 4) \o LE(r.ret, 4)),
              !.pos = size_pos + 8 + Len(r.bytes),
              !.ss_state = r.ctx]

\* the (Compression::None, Encoding::Statestream) arm; the arms that hand the
\* bytes to zlib or zstd are outside the model
ReplayEncoder_encode_checkpoint(e, checkpoint, frame) ==
    IF e.header.checkpoint_compression # Compression_None
    THEN [e EXCEPT !.status = "Unmodelled"]
    ELSE EncodeCheckpointSizes(
             [e EXCEPT !.file = WriteAt(e.file, e.pos,
                                   <<e.header.checkpoint_compression, Encoding_Statestream>>
                                   \o LE(Len(checkpoint), 4) \o LE(0, 4) \o LE(0, 4))],
             e.pos + 6,
             Encoder_encode_checkpoint(e.ss_state, checkpoint, frame))

\* after encode_checkpoint left the encoder as e
EncodeInitialEnd(e) ==
    IF e.status # "ok" THEN e
    ELSE [ReplayEncoder_write_header(
              [e EXCEPT !.header.initial_state_size = e.pos - HEADERV2_LEN_BYTES])
          EXCEPT !.last_pos = e.pos]

ReplayEncoder_encode_initial_checkpoint(e, checkpoint) ==
    EncodeInitialEnd(
        ReplayEncoder_encode_checkpoint([e EXCEPT !.pos = HEADERV2_LEN_BYTES], checkpoint, 0))

ReplayEncoder_failed(header, status) ==
    [file |-> <<>>, pos |-> 0, header |-> header, frame_number |-> 0, last_pos |-> 0,
     ss_state |-> Ctx_new(1, 1), finished |-> FALSE, status |-> status]

\* after write_header left the encoder as e
EncoderNewInitial(e, initial_state) ==
    IF initial_state # <<>>
    THEN ReplayEncoder_encode_initial_checkpoint(e, initial_state)
    ELSE e

EncoderNewEnd(e) == IF e.status # "ok" THEN e ELSE [e EXCEPT !.last_pos = e.pos]

\* a new that writes the header before it looks at the version
ReplayEncoder_new_late(header, initial_state) ==
    IF header.version # 2
    THEN [ReplayEncoder_write_header(
              [file |-> <<>>, pos |-> 0, header |-> header, frame_number |-> 0,
               last_pos |-> 0, ss_state |-> Ctx_new(1, 1), finished |-> FALSE,
               status |-> "ok"]) EXCEPT !.status = "Version"]
    ELSE EncoderNewEnd(EncoderNewInitial(
             ReplayEncoder_write_header(
                 [file |-> <<>>, pos |-> 0, header |-> header, frame_number |-> 0,
                  last_pos |-> 0,
                  ss_state |-> Ctx_new(Header_block_size(header),
                                       Header_superblock_size(header)),
                  finished |-> FALSE, status |-> "ok"]),
             initial_state))

\* ReplayEncoder::new on an empty stream at position 0
ReplayEncoder_new(header, initial_state) ==
    IF header.version # 2 THEN ReplayEncoder_failed(header, "Version")
    ELSE EncoderNewEnd(EncoderNewInitial(
             ReplayEncoder_write_header(
                 [file |-> <<>>, pos |-> 0, header |-> header, frame_number |-> 0,
                  last_pos |-> 0,
                  ss_state |-> Ctx_new(Header_block_size(header),
                                       Header_superblock_size(header)),
                  finished |-> FALSE, status |-> "ok"]),
             initial_state))

\* a frame record laid out as in version 1, without the backref
FrameHead_v1(frame, backref) ==
    <<Len(frame.key_events)>>
    \o FlattenEach([i \in 1..Len(frame.key_events) |-> KeyBytes(frame.key_events[i])], 12)
    \o LE(Len(frame.input_events), 2)
    \o FlattenEach([i \in 1..Len(frame.input_events) |-> InputBytes(frame.input_events[i])], 8)

\* the bytes of a frame record up to its token
FrameHead(frame, backref) ==
    LE(backref, 4) \o <<Len(frame.key_events)>>
    \o FlattenEach([i \in 1..Len(frame.key_events) |-> KeyBytes(frame.key_events[i])], 12)
    \o LE(Len(frame.input_events), 2)
    \o FlattenEach([i \in 1..Len(frame.input_events) |-> InputBytes(frame.input_events[i])], 8)

\* the end of write_frame, e being the encoder after the record's bytes
WriteFrameEnd(e, start_pos) ==
    IF e.status # "ok" THEN e
    ELSE [e EXCEPT !.frame_number = @ + 1, !.last_pos = start_pos]

\* after the head and the token byte have been written
WriteFrameToken(e, frame, start_pos) ==
    WriteFrameEnd(IF frame.checkpoint_bytes = <<>> THEN e
                  ELSE ReplayEncoder_encode_checkpoint(e, frame.checkpoint_bytes,
                                                       e.frame_number),
                  start_pos)

WriteFrameBytes(e, frame, bytes) ==
    WriteFrameToken([e EXCEPT !.file = WriteAt(e.file, e.pos, bytes),
                              !.pos = e.pos + Len(bytes)],
                    frame, e.pos)

\* a write_frame that counts the frame it refuses
WriteFrameRefused_counting(e, bytes, status) ==
    [e EXCEPT !.file = WriteAt(e.file, e.pos, bytes), !.pos = e.pos + Len(bytes),
              !.status = status, !.frame_number = @ + 1, !.last_pos = e.pos]

\* write_frame returns an error after it wrote bytes at the position
WriteFrameRefused(e, bytes, status) ==
    [e EXCEPT !.file = WriteAt(e.file, e.pos, bytes), !.pos = e.pos + Len(bytes),
              !.status = status]

\* the bytes written before the input count: backref, key count, key events
WriteFrameKeys(e, frame) ==
    LE(e.pos - e.last_pos, 4) \o <<Len(frame.key_events)>>
    \o FlattenEach([i \in 1..Len(frame.key_events) |-> KeyBytes(frame.key_events[i])], 12)

\* the backref is written before the key count is converted, and the key
\* events before the input count is.  The positions of the model are far
\* below 2^32, so that the conversion of the backref never fails
ReplayEncoder_write_frame(e, frame) ==
    IF Len(frame.key_events) > U8_MAX
    THEN WriteFrameRefused(e, LE(e.pos - e.last_pos, 4), "TooManyKeyEvents")
    ELSE IF Len(frame.input_events) > U16_MAX
    THEN WriteFrameRefused(e, WriteFrameKeys(e, frame), "TooManyInputEvents")
    ELSE WriteFrameBytes(e, frame,
             FrameHead(frame, e.pos - e.last_pos)
             \o <<IF frame.checkpoint_bytes = <<>> THEN FrameToken_Regular
                  ELSE FrameToken_Checkpoint2>>)

ReplayEncoder_finish(e) ==
    IF e.finished THEN e
    ELSE [ReplayEncoder_write_header(e) EXCEPT !.finished = TRUE]

(***************************************************************************)
(* ReplayDecoder, reading the bytes b.  Status "IO" is ReplayError::IO     *)
(* with an io::Error of kind UnexpectedEof, "IO_Other" with any other kind.*)
(***************************************************************************)
DecodeResult(d, pos, status, cp) ==
    [d |-> [d EXCEPT !.pos = pos, !.status = status], cp |-> cp]

\* a record header read whole before its two discriminant bytes are looked at
CheckpointHead_late(b, pos) ==
    LET c == read_le(b, pos, 1)
        en == read_le(b, c.pos, 1)
        ue == read_le(b, en.pos, 4)
        ee == read_le(b, ue.pos, 4)
        ce == read_le(b, ee.pos, 4)
    IN IF ~ce.ok THEN [status |-> "IO", pos |-> ce.pos]
       ELSE IF c.v > Compression_Zstd THEN [status |-> "Compression", pos |-> ce.pos]
       ELSE IF en.v > Encoding_Statestream THEN [status |-> "Encoding", pos |-> ce.pos]
       ELSE [status |-> "ok", pos |-> ce.pos, compression |-> c.v, encoding |-> en.v,
             uc_ue_size |-> ue.v]

\* the five header fields of a checkpoint record, read at pos
CheckpointHead(b, pos) ==
    LET c == read_le(b, pos, 1)
        en == read_le(b, c.pos, 1)
        ue == read_le(b, en.pos, 4)
        ee == read_le(b, ue.pos, 4)
        ce == read_le(b, ee.pos, 4)
    IN IF ~c.ok THEN [status |-> "IO", pos |-> c.pos]
       ELSE IF c.v > Compression_Zstd THEN [status |-> "Compression", pos |-> c.pos]
       ELSE IF ~en.ok THEN [status |-> "IO", pos |-> en.pos]
       ELSE IF en.v > Encoding_Statestream THEN [status |-> "Encoding", pos |-> en.pos]
       ELSE IF ~ce.ok THEN [status |-> "IO", pos |-> ce.pos]
       ELSE [status |-> "ok", pos |-> ce.pos, compression |-> c.v, encoding |-> en.v,
             uc_ue_size |-> ue.v]

\* after std::io::copy from the state-stream decoder returned r
DecodeStatestreamEnd(d, r) ==
    [d |-> [d EXCEPT !.pos = r.d.pos, !.ss_state = r.d.ctx,
                     !.status = IF r.status \in {"ok", "panic"} THEN r.status
                                ELSE IF r.status = "eof" THEN "IO" ELSE "IO_Other"],
     cp |-> r.dst]

\* (Compression::None, Encoding::Raw)
DecodeRaw(d, b, pos, cp) ==
    IF ~read_exact(b, pos, Len(cp)).ok THEN DecodeResult(d, pos, "IO", cp)
    ELSE DecodeResult(d, pos + Len(cp), "ok", read_exact(b, pos, Len(cp)).v)

\* after the header h of the record has been read.  A size above MaxAlloc is
\* outside the model, and so are the arms that hand the bytes to zlib or zstd
DecodeCheckpointBody(d, b, h, checkpoint_bytes) ==
    IF h.status # "ok" THEN DecodeResult(d, h.pos, h.status, checkpoint_bytes)
    ELSE IF h.uc_ue_size > MaxAlloc \/ h.compression # Compression_None
         THEN DecodeResult(d, h.pos, "Unmodelled", checkpoint_bytes)
    ELSE IF h.encoding = Encoding_Raw
         THEN DecodeRaw(d, b, h.pos, Resize(checkpoint_bytes, h.uc_ue_size))
    ELSE DecodeStatestreamEnd(d,
             io_copy(Decoder_new(d.ss_state, h.uc_ue_size, h.pos), b, CopyBufLen,
                     Resize(checkpoint_bytes, h.uc_ue_size), 0))

ReplayDecoder_decode_checkpoint(d, b, checkpoint_bytes) ==
    DecodeCheckpointBody(d, b, CheckpointHead(b, d.pos), checkpoint_bytes)

\* decode_initial_checkpoint, r being what decode_checkpoint returned
DecodeInitialEnd(d, r) ==
    IF r.d.status # "ok" THEN [r.d EXCEPT !.initial_state = <<>>]
    ELSE [r.d EXCEPT !.initial_state = r.cp]

ReplayDecoder_decode_initial_checkpoint(d, b) ==
    DecodeInitialEnd(d, ReplayDecoder_decode_checkpoint(d, b, d.initial_state))

ReplayDecoder_failed(pos, status) ==
    [pos |-> pos, header |-> HeaderV0V1(0, 0, 0, 0), initial_state |-> <<>>,
     frame_number |-> 0, ss_state |-> Ctx_new(1, 1), status |-> status]

\* the rest of new for a version 2 header, whose base fields were read
DecoderNewV2(b, version, crc, iss, ident) ==
    LET fc == read_le(b, ident.pos, 4)
        bs == read_le(b, fc.pos, 4)
        sbs == read_le(b, bs.pos, 4)
        cfg == read_le(b, sbs.pos, 4)
    IN IF ~cfg.ok THEN ReplayDecoder_failed(cfg.pos, "IO")
       ELSE IF (cfg.v \div 256) % 256 > Compression_Zstd
            THEN ReplayDecoder_failed(cfg.pos, "Compression")
       ELSE ReplayDecoder_decode_initial_checkpoint(
                [pos |-> cfg.pos,
                 header |-> HeaderV2(version, crc.v, iss.v, ident.v, fc.v, bs.v, sbs.v,
                                     cfg.v \div 16777216, (cfg.v \div 65536) % 256,
                                     (cfg.v \div 256) % 256),
                 initial_state |-> Zeros(iss.v),
                 frame_number |-> 0,
                 ss_state |-> Ctx_new(bs.v, sbs.v),
                 status |-> "ok"], b)

\* the rest of new for a version 0 or 1 header
DecoderNewV0V1(b, version, crc, iss, ident) ==
    IF ~read_exact(b, ident.pos, iss.v).ok THEN ReplayDecoder_failed(ident.pos, "IO")
    ELSE [pos |-> ident.pos + iss.v,
          header |-> HeaderV0V1(version, crc.v, iss.v, ident.v),
          initial_state |-> read_exact(b, ident.pos, iss.v).v,
          frame_number |-> 0, ss_state |-> Ctx_new(1, 1), status |-> "ok"]

\* a new that reads the whole base header before it looks at the magic
ReplayDecoder_new_eager(b) ==
    LET magic == read_le(b, 0, 4)
        version == read_le(b, magic.pos, 4)
        crc == read_le(b, version.pos, 4)
        iss == read_le(b, crc.pos, 4)
        ident == read_le(b, iss.pos, 8)
    IN IF ~ident.ok THEN ReplayDecoder_failed(ident.pos, "IO")
       ELSE IF magic.v # MAGIC THEN ReplayDecoder_failed(ident.pos, "Magic")
       ELSE IF version.v > 2 THEN ReplayDecoder_failed(ident.pos, "Version")
       ELSE IF version.v < 2 THEN DecoderNewV0V1(b, version.v, crc, iss, ident)
       ELSE DecoderNewV2(b, version.v, crc, iss, ident)

\* ReplayDecoder::new on a stream at position 0
ReplayDecoder_new(b) ==
    LET magic == read_le(b, 0, 4)
        version == read_le(b, magic.pos, 4)
        crc == read_le(b, version.pos, 4)
        iss == read_le(b, crc.pos, 4)
        ident == read_le(b, iss.pos, 8)
    IN IF ~magic.ok THEN ReplayDecoder_failed(magic.pos, "IO")
       ELSE IF magic.v # MAGIC THEN ReplayDecoder_failed(magic.pos, "Magic")
       ELSE IF ~version.ok THEN ReplayDecoder_failed(version.pos, "IO")
       ELSE IF version.v > 2 THEN ReplayDecoder_failed(version.pos, "Version")
       ELSE IF ~ident.ok THEN ReplayDecoder_failed(ident.pos, "IO")
       ELSE IF version.v < 2 THEN DecoderNewV0V1(b, version.v, crc, iss, ident)
       ELSE DecoderNewV2(b, version.v, crc, iss, ident)

\* key events read one after another at pos, until n are read or the bytes end
RECURSIVE ReadKeys(_, _, _, _)
ReadKeys(b, pos, n, acc) ==
    IF n = 0 THEN [ok |-> TRUE, v |-> acc, pos |-> pos]
    ELSE IF pos + 12 > Len(b) THEN [ok |-> FALSE, v |-> acc, pos |-> pos]
    ELSE ReadKeys(b, pos + 12, n - 1,
             Append(acc, [down |-> b[pos + 1],
                          modf |-> LEValue(Slice(b, pos + 2, pos + 4)),
                          code |-> LEValue(Slice(b, pos + 4, pos + 8)),
                          chr |-> LEValue(Slice(b, pos + 8, pos + 12))]))

RECURSIVE ReadInputs(_, _, _, _)
ReadInputs(b, pos, n, acc) ==
    IF n = 0 THEN [ok |-> TRUE, v |-> acc, pos |-> pos]
    ELSE IF pos + 8 > Len(b) THEN [ok |-> FALSE, v |-> acc, pos |-> pos]
    ELSE ReadInputs(b, pos + 8, n - 1,
             Append(acc, [port |-> b[pos + 1], device |-> b[pos + 2], idx |-> b[pos + 3],
                          id |-> LEValue(Slice(b, pos + 4, pos + 6)),
                          val |-> I16(LEValue(Slice(b, pos + 6, pos + 8)))]))

\* Vec::resize_with(n, default) followed by the assignment of the events read
EventsAfter(old, n, got, default) ==
    [i \in 1..n |-> IF i <= Len(got) THEN got[i]
                    ELSE IF i <= Len(old) THEN old[i] ELSE default]

\* a read_frame that never counts the frame it read
ReadFrameResult_uncounted(d, frame, pos, status) ==
    [d |-> [d EXCEPT !.pos = pos, !.status = status], frame |-> frame]

\* a read_frame that counts the frame before it knows the call succeeded
ReadFrameResult_counting(d, frame, pos, status) ==
    [d |-> [d EXCEPT !.pos = pos, !.status = status, !.frame_number = @ + 1],
     frame |-> frame]

ReadFrameResult(d, frame, pos, status) ==
    [d |-> [d EXCEPT !.pos = pos, !.status = status,
                     !.frame_number = IF status = "ok" THEN @ + 1 ELSE @],
     frame |-> frame]

\* FrameToken::Checkpoint2, r being what decode_checkpoint returned
ReadFrameCheckpoint2(frame, r) ==
    ReadFrameResult(r.d, [frame EXCEPT !.checkpoint_bytes = r.cp], r.d.pos, r.d.status)

\* FrameToken::Checkpoint, sz being the u64 size read
ReadFrameCheckpoint(d, b, frame, sz) ==
    IF ~sz.ok THEN ReadFrameResult(d, frame, sz.pos, "IO")
    ELSE IF sz.v > MaxAlloc THEN ReadFrameResult(d, frame, sz.pos, "Unmodelled")
    ELSE IF ~read_exact(b, sz.pos, sz.v).ok
         THEN ReadFrameResult(d, [frame EXCEPT !.checkpoint_bytes = Resize(@, sz.v)],
                              sz.pos, "IO")
    ELSE ReadFrameResult(d, [frame EXCEPT !.checkpoint_bytes = read_exact(b, sz.pos, sz.v).v],
                         sz.pos + sz.v, "ok")

\* the match on the frame token tok
ReadFrameToken(d, b, frame, tok) ==
    IF ~tok.ok THEN ReadFrameResult(d, frame, tok.pos, "IO")
    ELSE IF tok.v = FrameToken_Regular
         THEN ReadFrameResult(d, [frame EXCEPT !.checkpoint_compression = Compression_None,
                                               !.checkpoint_encoding = Encoding_Raw,
                                               !.checkpoint_bytes = <<>>],
                              tok.pos, "ok")
    ELSE IF tok.v = FrameToken_Checkpoint
         THEN ReadFrameCheckpoint(d,  b,
                  [frame EXCEPT !.checkpoint_compression = Compression_None,
                                !.checkpoint_encoding = Encoding_Raw],
                  read_le(b, tok.pos, 8))
    ELSE IF tok.v = FrameToken_Checkpoint2
         THEN ReadFrameCheckpoint2(frame,
                  ReplayDecoder_decode_checkpoint([d EXCEPT !.pos = tok.pos], b,
                                                  frame.checkpoint_bytes))
    ELSE ReadFrameResult(d, frame, tok.pos, "BadFrameToken")

\* after the input events were read as is
ReadFrameInputs(d, b, frame, n, is) ==
    IF ~is.ok
    THEN ReadFrameResult(d, [frame EXCEPT !.input_events =
                                 EventsAfter(@, n, is.v, InputData_default)],
                         is.pos, "IO")
    ELSE ReadFrameToken(d, b, [frame EXCEPT !.input_events = is.v], read_le(b, is.pos, 1))

\* after input_count was read as ic
ReadFrameInputCount(d, b, frame, ic) ==
    IF ~ic.ok THEN ReadFrameResult(d, frame, ic.pos, "IO")
    ELSE ReadFrameInputs(d, b, frame, ic.v, ReadInputs(b, ic.pos, ic.v, <<>>))

\* after the key events were read as ks
ReadFrameKeys(d, b, frame, n, ks) ==
    IF ~ks.ok
    THEN ReadFrameResult(d, [frame EXCEPT !.key_events =
                                 EventsAfter(@, n, ks.v, KeyData_default)],
                         ks.pos, "IO")
    ELSE ReadFrameInputCount(d, b, [frame EXCEPT !.key_events = ks.v],
                             read_le(b, ks.pos, 2))

\* after key_count was read as kc
ReadFrameKeyCount(d, b, frame, kc) ==
    IF ~kc.ok THEN ReadFrameResult(d, frame, kc.pos, "IO")
    ELSE ReadFrameKeys(d, b, frame, kc.v, ReadKeys(b, kc.pos, kc.v, <<>>))

\* after the backref was skipped (version 2) or not (version 1)
ReadFrameBackref(d, b, frame, br) ==
    IF ~br.ok THEN ReadFrameResult(d, frame, br.pos, "IO")
    ELSE ReadFrameKeyCount(d, b, frame, read_le(b, br.pos, 1))

\* a read_frame that looks at the version after it read the record's events
ReplayDecoder_read_frame_late(d, b, frame) ==
    IF d.header.version = 0
    THEN LET r == ReadFrameBackref(d, b, frame, [ok |-> TRUE, v |-> 0, pos |-> d.pos])
         IN ReadFrameResult(d, r.frame, r.d.pos, "NoCoreRead")
    ELSE ReadFrameBackref(d, b, frame,
             IF d.header.version > 1 THEN read_le(b, d.pos, 4)
             ELSE [ok |-> TRUE, v |-> 0, pos |-> d.pos])

ReplayDecoder_read_frame(d, b, frame) ==
    IF d.header.version = 0 THEN ReadFrameResult(d, frame, d.pos, "NoCoreRead")
    ELSE ReadFrameBackref(d, b, frame,
             IF d.header.version > 1 THEN read_le(b, d.pos, 4)
             ELSE [ok |-> TRUE, v |-> 0, pos |-> d.pos])

(***************************************************************************)
(* Initial values of each part of the state; a specification starts the    *)
(* parts it does not drive at their idle value and never changes them.     *)
(***************************************************************************)
NoRet == [op |-> "new", index |-> 0, is_new |-> FALSE, ret |-> "none", obj |-> <<>>]

IdxIdle ==
    /\ bidx = BlockIndex_new(1)
    /\ bret = NoRet
    /\ bops = {}

Decoders == {1, 2}

Checkpoints == SeqsUpTo(DataBytes, MaxLen)

NoRecord == [checkpoint |-> <<>>, tokens |-> <<>>, ret |-> 0,
             blocks_before |-> 0, superblocks_before |-> 0]

NoOutcome == [status |-> "none", out |-> <<>>, checkpoint |-> <<>>, rest |-> 0]

SSStart(g) ==
    /\ ectx = Ctx_new(g[1], g[2])
    /\ nrec = 0
    /\ elast = NoRecord
    /\ eprev = NoRecord
    /\ dctx = [i \in Decoders |-> Ctx_new(g[1], g[2])]
    /\ wire = [i \in Decoders |-> <<>>]
    /\ ndec = [i \in Decoders |-> 0]
    /\ dlast = [i \in Decoders |-> NoOutcome]

SSIdle == SSStart(<<1, 1>>)

NoToken == [tok |-> [t |-> -1], state |-> "none",
            blocks_before |-> 0, superblocks_before |-> 0]

\* a record an earlier checkpoint of the replay was read from: it declares a
\* block of ones and a superblock that starts with it
AdvEarlierRecord(g) ==
    TokensBytes(<<TokStart(0),
                  TokNewBlock(1, g[1], [i \in 1..g[1] |-> 1]),
                  TokNewSuperblock(1, g[2], [i \in 1..g[2] |-> IF i = 1 THEN 1 ELSE 0]),
                  TokSuperblockSeq(1, <<1>>)>>)

\* the contexts a decoder is created on: a new one, and one that has decoded
\* the earlier record as a state of n bytes
AdvSeasoned(g, n) ==
    Decoder_loop(Decoder_begin(Decoder_new(Ctx_new(g[1], g[2]), n, 0)),
                 AdvEarlierRecord(g)).ctx
AdvContexts(g) == {Ctx_new(g[1], g[2]), AdvSeasoned(g, 3)}

AdvStartOn(ctx, n) ==
    /\ adec = Decoder_new(ctx, n, 0)
    /\ ain = NoToken
    /\ atoks = 0
    /\ aout = <<>>

AdvStart(g, n) == AdvStartOn(Ctx_new(g[1], g[2]), n)

AdvIdle == AdvStart(<<1, 1>>, 0)

\* the headers a caller opens an encoder with: version 2 with either
\* geometry and any value in the size fields, and one upgraded from version 1
RplyHeaders ==
    {HeaderV2(2, 7, iss, 9, 3, g[1], g[2], 4, 2, Compression_None) :
        g \in AdvGeometries, iss \in {0, 5}}
    \cup {Header_upgrade(HeaderV0V1(1, 7, 0, 9))}

RplyInitials == {<<>>, <<1>>, <<0, 1, 1>>}

RplyKey == [down |-> 1, modf |-> 2, code |-> 300, chr |-> 65]
RplyInput == [port |-> 0, device |-> 1, idx |-> 0, id |-> 4, val |-> -1]

RplyFrame(keys, inputs, checkpoint) ==
    [Frame_default EXCEPT !.key_events = keys, !.input_events = inputs,
                          !.checkpoint_bytes = checkpoint]

RplyFrames ==
    {RplyFrame(<<>>, <<>>, <<>>), RplyFrame(<<RplyKey>>, <<>>, <<>>),
     RplyFrame(<<>>, <<RplyInput>>, <<>>), RplyFrame(<<>>, <<>>, <<1>>),
     RplyFrame(<<>>, <<>>, <<0, 1, 1>>), RplyFrame(<<RplyKey>>, <<RplyInput>>, <<1, 1>>)}

NoDecoder == ReplayDecoder_failed(0, "none")

RplyStart(h, initial) ==
    /\ renc = ReplayEncoder_new(h, initial)
    /\ rin = [header |-> h, initial |-> initial, frames |-> <<>>]
    /\ rdec = NoDecoder
    /\ ropen = "none"
    /\ rframe = Frame_default
    /\ rout = <<>>
    /\ rclosed = FALSE

RplyIdle == RplyStart(Header_upgrade(HeaderV0V1(1, 7, 0, 9)), <<>>)

\* Stopwatch::drop: one more run of timer t
ClockTick(c, t, n) == [c EXCEPT ![t] = @ + n]

TwinStart(h, initial) ==
    /\ tenc = [i \in 1..2 |-> ReplayEncoder_new(h, initial)]
    /\ tin = [header |-> h, initial |-> initial, frames |-> <<>>]
    /\ clock = [EncodeFrame |-> 0,
                EncodeCheckpoint |-> IF h.version = 2 /\ initial # <<>> THEN 2 ELSE 0]

TwinIdle == TwinStart(Header_upgrade(HeaderV0V1(1, 7, 0, 9)), <<>>)

\* the header of a stream of the given version: 24 bytes below version 2,
\* 40 from version 2 on
FileHeaderBytes(magic, version, h) ==
    LE(magic, 4) \o LE(version, 4)
    \o SubSeq(HeaderBytes(h), 9, IF version < 2 THEN 24 ELSE HEADERV2_LEN_BYTES)

\* a checkpoint record as decode_checkpoint reads it
CheckpointRecord(compression, encoding, size, payload) ==
    <<compression, encoding>> \o LE(size, 4) \o LE(Len(payload), 4)
    \o LE(Len(payload), 4) \o payload

FileInitialState == <<1, 1>>

\* the initial state as stored: raw below version 2, a record from version 2
FileInitial(version) ==
    IF version < 2 THEN FileInitialState
    ELSE CheckpointRecord(Compression_None, Encoding_Raw, Len(FileInitialState),
                          FileInitialState)

\* frames at and beyond the widths of the two event counts
LimitFrames ==
    {RplyFrame(<<>>, <<>>, <<>>),
     RplyFrame(<<RplyKey>>, <<RplyInput>>, <<>>),
     RplyFrame([i \in 1..U8_MAX |-> RplyKey], <<>>, <<>>),
     RplyFrame([i \in 1..(U8_MAX + 1) |-> RplyKey], <<RplyInput>>, <<>>),
     RplyFrame(<<RplyKey>>, [i \in 1..(U16_MAX + 1) |-> RplyInput], <<>>),
     RplyFrame([i \in 1..(U8_MAX + 1) |-> RplyKey],
               [i \in 1..(U16_MAX + 1) |-> RplyInput], <<>>)}

\* the state-stream tokens of the one-byte state <<1>> for blocks of 1 byte
\* and superblocks of 2 blocks: Start 0; NewBlock 1 bin(1) 01; NewSuperblock 1
\* [1, 0]; SuperblockSeq [1]
FileStatestream == <<0, 0, 1, 1, 196, 1, 1, 2, 1, 146, 1, 0, 3, 145, 1>>

\* a frame record: the frame, its token byte and what follows the token
FileItem(frame, tok, payload) == [frame |-> frame, tok |-> tok, payload |-> payload]

FileItems ==
    {FileItem(RplyFrame(<<>>, <<>>, <<>>), FrameToken_Regular, <<>>),
     FileItem(RplyFrame(<<RplyKey>>, <<RplyInput>>, <<>>), FrameToken_Regular, <<>>),
     FileItem(RplyFrame(<<>>, <<>>, <<1, 0>>), FrameToken_Checkpoint,
              LE(2, 8) \o <<1, 0>>),
     FileItem(RplyFrame(<<>>, <<RplyInput>>, <<1>>), FrameToken_Checkpoint2,
              CheckpointRecord(Compression_None, Encoding_Raw, 1, <<1>>)),
     FileItem(RplyFrame(<<>>, <<>>, <<1>>), FrameToken_Checkpoint2,
              CheckpointRecord(Compression_None, Encoding_Statestream, 1,
                               FileStatestream)),
     FileItem(RplyFrame(<<>>, <<>>, <<>>), 120, <<>>),
     FileItem(RplyFrame(<<RplyKey>>, <<>>, <<>>), 0, <<>>)}

\* the records that follow the first one of a hand-laid stream
FileTails == {item \in FileItems : item.frame.key_events = <<>>
                                   /\ item.tok # FrameToken_Checkpoint}

\* the frame the caller hands to read_frame: a fresh one, or one that an
\* earlier use has filled
FileCallerFrames ==
    {Frame_default,
     [RplyFrame(<<RplyKey, RplyKey>>, <<RplyInput>>, <<1, 1, 1>>)
        EXCEPT !.checkpoint_compression = Compression_Zstd,
               !.checkpoint_encoding = Encoding_Statestream]}

\* no encoder, no decoder yet, and the caller's frame
FileCaller(frame) ==
    /\ renc = ReplayEncoder_new(Header_upgrade(HeaderV0V1(1, 7, 0, 9)), <<>>)
    /\ rin = [header |-> Header_upgrade(HeaderV0V1(1, 7, 0, 9)), initial |-> <<>>,
              frames |-> <<>>]
    /\ rdec = NoDecoder
    /\ ropen = "none"
    /\ rframe = frame
    /\ rout = <<>>
    /\ rclosed = FALSE

\* the bytes of a frame record; the backref is there from version 2 on
FileItemBytes(version, item) ==
    SubSeq(FrameHead(item.frame, 0), IF version < 2 THEN 5 ELSE 1,
           Len(FrameHead(item.frame, 0)))
    \o <<item.tok>> \o item.payload

\* the offset at which each record starts, the first one starting at base
FileStarts(base, lens) ==
    [k \in 1..Len(lens) |-> base + SumSeq(SubSeq(lens, 1, k - 1))]

FileMeta(kind, magic, version, initial, frames, toks, starts, len) ==
    [kind |-> kind, magic |-> magic, version |-> version, initial |-> initial,
     frames |-> frames, toks |-> toks, starts |-> starts, full |-> len, cut |-> len,
     reads |-> 0]

\* a stream laid out by hand: header, initial state, the records of items
FileCraftedOf(magic, version, items, head, recs) ==
    /\ fstream = head \o Flatten(recs)
    /\ fmeta = FileMeta("crafted", magic, version, FileInitialState,
                        [k \in 1..Len(items) |-> items[k].frame],
                        [k \in 1..Len(items) |-> items[k].tok],
                        FileStarts(Len(head), [k \in 1..Len(recs) |-> Len(recs[k])]),
                        Len(head) + Len(Flatten(recs)))

FileCrafted(magic, version, items) ==
    FileCraftedOf(magic, version, items,
        FileHeaderBytes(magic, version,
            HeaderV2(version, 7, Len(FileInitial(version)), 9, Len(items), 1, 2, 4, 2,
                     Compression_None))
        \o FileInitial(version),
        [k \in 1..Len(items) |-> FileItemBytes(version, items[k])])

\* the encoder e after write_frame for each of frames and finish, with the
\* offsets at which the records start
RECURSIVE FileEncode(_, _, _)
FileEncode(e, frames, starts) ==
    IF frames = <<>> THEN [e |-> ReplayEncoder_finish(e), starts |-> starts]
    ELSE FileEncode(ReplayEncoder_write_frame(e, Head(frames)), Tail(frames),
                    Append(starts, e.pos))

FileEncodedOf(initial, frames, r) ==
    /\ fstream = r.e.file
    /\ fmeta = FileMeta("encoded", MAGIC, 2, initial, frames,
                        [k \in 1..Len(frames) |->
                            IF frames[k].checkpoint_bytes = <<>> THEN FrameToken_Regular
                            ELSE FrameToken_Checkpoint2],
                        r.starts, Len(r.e.file))

\* a stream written by a ReplayEncoder
FileEncoded(h, initial, frames) ==
    FileEncodedOf(initial, frames, FileEncode(ReplayEncoder_new(h, initial), frames, <<>>))

FileIdle == FileCrafted(MAGIC, 2, <<>>)

\* an encoder whose frame_number stands at n, whose last frame record starts
\* at last_pos and is last_len bytes long, and whose stream stands at pos
WideStartAt(n, last_pos, last_len, pos) ==
    wide = [frame_number |-> n, frame_count |-> <<0, 0>>, disk |-> <<0, 0, 0, 0>>,
            finished |-> FALSE, status |-> "none", writes |-> 0,
            pos |-> pos, last_pos |-> last_pos, last_len |-> last_len,
            backref |-> <<0, 0>>, clean |-> TRUE]

\* an encoder as new leaves it when the initial state is empty: the stream
\* stands behind the header
WideIdle == WideStartAt(<<0, 0, 0, 0>>, <<HEADERV2_LEN_BYTES, 0, 0, 0>>, <<0, 0, 0, 0>>,
                        <<HEADERV2_LEN_BYTES, 0, 0, 0>>)

\* the threads of the process, the tags they use, and what they pass
Threads == {1, 2}
Timers == {"DecodeFrame", "EncodeFrame"}
Counters == {"EncHashes"}
Amounts == {1, 2}
Elapsed == {1}

\* the atomics: one per timer in TIME_ACC and TIME_COUNTS, one per counter
\* in COUNTS
Cells == ({"TIME_ACC", "TIME_COUNTS"} \X Timers) \cup ({"COUNTS"} \X Counters)

\* AtomicU64::new(0): the modification order holds the initial value
AtomicU64_new(v) == <<v>>

\* a thread that has made no call
ThreadNew ==
    [pc |-> "idle", sw |-> "none", seen |-> [c \in Cells |-> 1],
     tag |-> "none", ops |-> 0, joined |-> FALSE,
     added |-> [c \in Counters |-> 0], dropped |-> [t \in Timers |-> 0]]

ClockStart ==
    /\ statics = [c \in Cells |-> AtomicU64_new(0)]
    /\ thr = [th \in Threads |-> ThreadNew]

ClockIdle == ClockStart

\* the headers a caller may hold: either variant, with any version number
\* and any value in the other fields
UpVersions == {0, 1, 2}
UpBases ==
    {HeaderV0V1(v, crc, iss, id) : v \in UpVersions, crc \in {0, 7}, iss \in {0, 5}, id \in {0, 9}}
UpHeaders ==
    UpBases
    \cup {HeaderV2(b.version, b.content_crc, b.initial_state_size, b.identifier,
                   fc, g[1], g[2], g[3], g[4], c) :
             b \in UpBases, fc \in {0, 3}, g \in {<<0, 0, 0, 0>>, <<1, 2, 4, 2>>},
             c \in {Compression_None, Compression_Zstd}}

UpStart(h) ==
    /\ uhdr = h
    /\ uop = "none"

UpIdle == UpStart(HeaderV0V1(1, 7, 0, 9))

(***************************************************************************)
(* SpecSS: one state-stream encoder, and two independent decoders that     *)
(* each read every record it produces.                                     *)
(***************************************************************************)
\* the context decoder i decodes with: each decoder owns its own
DecCtx_shared(i) == dctx[1]

DecCtx(i) == dctx[i]

\* the state after encoding checkpoint with outcome r
SSEncoded(checkpoint, r) ==
    /\ ectx' = r.ctx
    /\ elast' = [checkpoint |-> checkpoint, tokens |-> r.tokens, ret |-> r.ret,
                 blocks_before |-> BlockIndex_len(ectx.block_index),
                 superblocks_before |-> BlockIndex_len(ectx.superblock_index)]
    /\ wire' = [i \in Decoders |->
                   Append(wire[i], [bytes |-> r.bytes, checkpoint |-> checkpoint])]

\* Encoder::new(writer, ctx).encode_checkpoint(checkpoint, frame)
SSEncode ==
    /\ nrec < MaxRecords
    /\ \A i \in Decoders : Len(wire[i]) < MaxWire
    /\ \E checkpoint \in Checkpoints :
          SSEncoded(checkpoint, Encoder_encode_checkpoint(ectx, checkpoint, nrec))
    /\ eprev' = elast
    /\ nrec' = nrec + 1
    /\ UNCHANGED <<dctx, ndec, dlast>>

\* the state after decoder i has read rec with outcome c
SSDecoded(i, rec, c) ==
    /\ dctx' = [dctx EXCEPT ![i] = c.d.ctx]
    /\ dlast' = [dlast EXCEPT ![i] = [status |-> c.status, out |-> c.dst,
                                      checkpoint |-> rec.checkpoint,
                                      rest |-> Len(rec.bytes) - c.d.pos]]

SSDecodeRecord(i, rec) ==
    SSDecoded(i, rec,
              io_copy(Decoder_new(DecCtx(i), Len(rec.checkpoint), 0), rec.bytes,
                      CopyBufLen, Zeros(Len(rec.checkpoint)), 0))

\* Decoder::new(reader, ctx, state_size) drained by std::io::copy
SSDecode(i) ==
    /\ wire[i] # <<>>
    /\ dlast[i].status \in {"none", "ok"}
    /\ SSDecodeRecord(i, Head(wire[i]))
    /\ wire' = [wire EXCEPT ![i] = Tail(@)]
    /\ ndec' = [ndec EXCEPT ![i] = @ + 1]
    /\ UNCHANGED <<ectx, nrec, elast, eprev>>

SSInit ==
    /\ \E g \in Geometries : SSStart(g)
    /\ IdxIdle
    /\ AdvIdle
    /\ RplyIdle
    /\ TwinIdle
    /\ FileIdle
    /\ WideIdle
    /\ ClockIdle
    /\ UpIdle

SSNext ==
    \/ SSEncode /\ UNCHANGED <<IdxVars, AdvVars, RplyVars, TwinVars, FileVars, WideVars, ClockVars, UpVars>>
    \/ \E i \in Decoders : SSDecode(i) /\ UNCHANGED <<IdxVars, AdvVars, RplyVars, TwinVars, FileVars, WideVars, ClockVars, UpVars>>

SpecSS == SSInit /\ [][SSNext]_vars

\* C2 (R2): whatever record a decoder has just read, it read it without
\* error, used up all of the record's bytes, and the bytes it yielded are
\* exactly the checkpoint that was encoded, with exactly its length.
R2_StateStreamRoundTrip ==
    \A i \in Decoders :
        ndec[i] > 0 =>
            /\ dlast[i].status = "ok"
            /\ dlast[i].out = dlast[i].checkpoint
            /\ Len(dlast[i].out) = Len(dlast[i].checkpoint)
            /\ dlast[i].rest = 0

\* a first record, decoded from a fresh context, whose length is a multiple
\* neither of block_size nor of block_size * superblock_size, and which is
\* longer than one block
R2_Witness ==
    /\ ndec[1] = 1
    /\ dlast[1].status = "ok"
    /\ Len(dlast[1].checkpoint) = 3
    /\ dctx[1].block_size = 2
    /\ dlast[1].checkpoint[3] = 1

\* positions of the tokens of kind t in a token sequence
TokensOf(tokens, t) == {i \in 1..Len(tokens) : tokens[i].t = t}

\* the objects an index held when it had n entries (it only ever appends)
ObjectsBefore(bi, n) == {bi.objects[i] : i \in 1..n}

\* the distinct blocks, padding included, the last checkpoint is made of
LastBlocks == LET bl == PaddedBlocks(ectx, elast.checkpoint)
              IN {bl[i] : i \in 1..Len(bl)}

\* C3 (R3/S4): a record emits exactly one NewBlock for each distinct block
\* of its checkpoint that the block index did not hold yet (from a fresh
\* context: one per distinct non-zero block), and a record whose checkpoint
\* equals that of the record before it emits no NewBlock and no
\* NewSuperblock and carries the same SuperblockSeq array.
R3_Dedup ==
    nrec >= 1 =>
        LET toks == elast.tokens
            fresh == LastBlocks \ ObjectsBefore(ectx.block_index, elast.blocks_before)
        IN /\ \A x \in fresh :
                 Cardinality({i \in TokensOf(toks, SSToken_NewBlock) :
                                 toks[i].data = x}) = 1
           /\ \A i \in TokensOf(toks, SSToken_NewBlock) : toks[i].data \in fresh
           /\ nrec = 1 =>
                 Cardinality(TokensOf(toks, SSToken_NewBlock))
                     = Cardinality(LastBlocks \ {Zeros(ectx.block_size)})
           /\ (nrec >= 2 /\ elast.checkpoint = eprev.checkpoint) =>
                 /\ TokensOf(toks, SSToken_NewBlock) = {}
                 /\ TokensOf(toks, SSToken_NewSuperblock) = {}
                 /\ toks[Len(toks)] = eprev.tokens[Len(eprev.tokens)]

\* the same checkpoint, with two distinct non-zero blocks, encoded twice
R3_Witness ==
    /\ nrec = 2
    /\ elast.checkpoint = eprev.checkpoint
    /\ elast.checkpoint = <<1, 1, 1>>
    /\ ectx.block_size = 2
    /\ Cardinality(TokensOf(eprev.tokens, SSToken_NewBlock)) = 2

EncDecIndexAgreement ==
    \A i \in Decoders :
        /\ dlast[i].status \in {"none", "ok"}
        /\ wire[i] = <<>> =>
              /\ dctx[i].block_index.objects = ectx.block_index.objects
              /\ dctx[i].superblock_index.objects = ectx.superblock_index.objects
        /\ BlockIndex_len(dctx[i].block_index) <= BlockIndex_len(ectx.block_index)
        /\ dctx[i].block_index.objects
              = SubSeq(ectx.block_index.objects, 1, BlockIndex_len(dctx[i].block_index))
        /\ BlockIndex_len(dctx[i].superblock_index)
              <= BlockIndex_len(ectx.superblock_index)
        /\ dctx[i].superblock_index.objects
              = SubSeq(ectx.superblock_index.objects, 1,
                       BlockIndex_len(dctx[i].superblock_index))

\* decoder 1 has caught up with an encoder that assigned several IDs over
\* two records
EncDecIndexAgreement_Witness ==
    /\ nrec = 2 /\ ndec[1] = 2 /\ wire[1] = <<>>
    /\ BlockIndex_len(ectx.block_index) >= 3
    /\ BlockIndex_len(ectx.superblock_index) >= 3
    /\ TokensOf(elast.tokens, SSToken_NewBlock) # {}

Objects(n) == SeqsUpTo(DataBytes, n + 1)

IdxInit ==
    /\ \E n \in ObjectSizes : bidx = BlockIndex_new(n)
    /\ bret = NoRet
    /\ bops = {}
    /\ SSIdle
    /\ AdvIdle
    /\ RplyIdle
    /\ TwinIdle
    /\ FileIdle
    /\ WideIdle
    /\ ClockIdle
    /\ UpIdle

IdxLive == bret.ret # "panic"

IdxInsert ==
    /\ IdxLive
    /\ BlockIndex_len(bidx) < MaxObjects
    /\ \E obj \in Objects(bidx.object_size) :
          LET r == BlockIndex_insert(bidx, obj)
          IN /\ bidx' = r.bi
             /\ bret' = [op |-> "insert", index |-> r.index, is_new |-> r.is_new,
                         ret |-> IF r.panic THEN "panic" ELSE "ok", obj |-> obj]
    /\ bops' = bops \cup {"insert"}
    /\ UNCHANGED <<SSVars, AdvVars, RplyVars, TwinVars, FileVars, WideVars, ClockVars, UpVars>>

IdxInsertExact ==
    /\ IdxLive
    /\ BlockIndex_len(bidx) < MaxObjects
    /\ \E idx \in 0..MaxObjects, obj \in Objects(bidx.object_size) :
          LET r == BlockIndex_insert_exact(bidx, idx, obj)
          IN /\ bidx' = r.bi
             /\ bret' = [op |-> "insert_exact", index |-> idx, is_new |-> FALSE,
                         ret |-> r.ret, obj |-> obj]
    /\ bops' = bops \cup {"insert_exact"}
    /\ UNCHANGED <<SSVars, AdvVars, RplyVars, TwinVars, FileVars, WideVars, ClockVars, UpVars>>

IdxClear ==
    /\ IdxLive
    /\ bidx' = BlockIndex_clear(bidx)
    /\ bret' = [op |-> "clear", index |-> BlockIndex_len(bidx), is_new |-> FALSE,
                ret |-> "ok", obj |-> <<>>]
    /\ bops' = bops \cup {"clear"}
    /\ UNCHANGED <<SSVars, AdvVars, RplyVars, TwinVars, FileVars, WideVars, ClockVars, UpVars>>

IdxNext == IdxInsert \/ IdxInsertExact \/ IdxClear

SpecIdx == IdxInit /\ [][IdxNext]_vars

\* C9 (I3): in every reachable state of a BlockIndex, after construction and
\* after any sequence of insert, insert_exact and clear, ID 0 exists and
\* get(0) is the all-zero object of object_size elements.
I3_ZeroObject ==
    /\ BlockIndex_has(bidx, 0)
    /\ BlockIndex_get(bidx, 0) = Zeros(bidx.object_size)
    /\ Len(BlockIndex_get(bidx, 0)) = bidx.object_size

\* an index that has gone through all three operations and then holds
\* objects beyond ID 0
I3_Witness ==
    /\ bops = {"insert", "insert_exact", "clear"}
    /\ BlockIndex_len(bidx) > 2
    /\ bret.op = "insert_exact" /\ bret.ret = "true"

\* the IDs under which obj is stored in bi
IdxHolds(bi, obj) == {i \in 1..Len(bi.objects) : bi.objects[i] = obj}

\* C23: insert(obj) of an object the index holds returns an ID of it with
\* is_new false and leaves the index as it was; of any other object it
\* stores a copy at the end, returns the length before the call with is_new
\* true, and the length grows by one; so too when obj shares its hash with
\* a different stored object.
InsertDeduplicates ==
    [][(bret'.op = "insert" /\ bret'.ret = "ok")
       => IF IdxHolds(bidx, bret'.obj) # {}
          THEN /\ ~bret'.is_new
               /\ bret'.index + 1 \in IdxHolds(bidx, bret'.obj)
               /\ bidx' = bidx
          ELSE /\ bret'.is_new
               /\ bret'.index = BlockIndex_len(bidx)
               /\ BlockIndex_len(bidx') = BlockIndex_len(bidx) + 1
               /\ bidx'.objects = Append(bidx.objects, bret'.obj)
               /\ bidx'.hashes = Append(bidx.hashes, hash(bret'.obj))]_vars

\* insert has just stored an object whose hash a different stored object
\* has too
InsertDeduplicates_Witness ==
    /\ bret.op = "insert"
    /\ bret.is_new
    /\ bret.index + 1 = Len(bidx.objects)
    /\ \E i \in 1..(Len(bidx.objects) - 1) :
          /\ bidx.hashes[i] = hash(bret.obj)
          /\ bidx.objects[i] # bret.obj
    /\ Len(bidx.index[hash(bret.obj)]) >= 2

\* how many times id occurs in chain
ChainCount(chain, id) == Cardinality({k \in 1..Len(chain) : chain[k] = id})

\* C39: in a BlockIndex populated only through new and insert, no two
\* distinct IDs hold equal objects, and every stored ID is in exactly one
\* collision chain, once, the chain keyed by the hash of its object; so
\* inserting an object the index holds returns the one ID that holds it.
InsertOnlyIndexUnique ==
    /\ [](bops \subseteq {"insert"}
          => /\ \A i, j \in 1..Len(bidx.objects) :
                    bidx.objects[i] = bidx.objects[j] => i = j
             /\ \A i \in 1..Len(bidx.objects), h \in HashRange :
                    ChainCount(bidx.index[h], i - 1)
                        = IF h = hash(bidx.objects[i]) THEN 1 ELSE 0
             /\ \A h \in HashRange :
                    \A k \in 1..Len(bidx.index[h]) :
                        BlockIndex_has(bidx, bidx.index[h][k]))
    /\ [][(bops' \subseteq {"insert"} /\ bret'.op = "insert" /\ bret'.ret = "ok")
          => /\ \A i \in IdxHolds(bidx, bret'.obj) : bret'.index = i - 1
             /\ BlockIndex_insert(bidx', bret'.obj).index = bret'.index
             /\ BlockIndex_insert(bidx', bret'.obj).bi = bidx']_vars

\* an index filled by insert alone, in which insert has just been given,
\* for the second time, an object that stands second in its chain
InsertOnlyIndexUnique_Witness ==
    /\ bops = {"insert"}
    /\ Len(bidx.objects) >= 3
    /\ bret.op = "insert"
    /\ ~bret.is_new
    /\ Len(bidx.index[hash(bret.obj)]) >= 2
    /\ bret.index = bidx.index[hash(bret.obj)][2]
    /\ bidx.objects[bret.index + 1] = bret.obj

\* C24: insert_exact(expected_id, obj) returns false and leaves the index as
\* it was when the length is not expected_id or obj is not of object_size
\* elements; otherwise it returns true and stores obj at expected_id, be an
\* equal object stored already or not.
InsertExactRefuses ==
    [][bret'.op = "insert_exact"
       => IF BlockIndex_len(bidx) # bret'.index
             \/ Len(bret'.obj) # bidx.object_size
          THEN bret'.ret = "false" /\ bidx' = bidx
          ELSE /\ bret'.ret = "true"
               /\ bidx'.objects = Append(bidx.objects, bret'.obj)]_vars

\* C25: an insert or insert_exact call never shortens the index and never
\* changes the object stored under an ID; when it assigns an ID, the ID is
\* the length of the index before the call and the length grows by one.
AppendOnlyDenseIds ==
    [][(bret'.op \in {"insert", "insert_exact"})
       => /\ BlockIndex_len(bidx') >= BlockIndex_len(bidx)
          /\ \A id \in 0..(BlockIndex_len(bidx) - 1) :
                BlockIndex_get(bidx', id) = BlockIndex_get(bidx, id)
          /\ BlockIndex_len(bidx') <= BlockIndex_len(bidx) + 1
          /\ BlockIndex_len(bidx') > BlockIndex_len(bidx)
             => /\ bret'.index = BlockIndex_len(bidx)
                /\ BlockIndex_get(bidx', bret'.index) = bret'.obj
          /\ (bret'.ret = "true" \/ bret'.is_new)
             => BlockIndex_len(bidx') = BlockIndex_len(bidx) + 1]_vars

\* IDs 1, 2 and 3 were assigned in turn, by insert and by insert_exact,
\* with no clear between
AppendOnlyDenseIds_Witness ==
    /\ bops = {"insert", "insert_exact"}
    /\ BlockIndex_len(bidx) = MaxObjects
    /\ bret.index = MaxObjects - 1
    /\ bret.ret \in {"ok", "true"}

(***************************************************************************)
(* SpecAdv: one state-stream decoder reading records whose tokens are any  *)
(* well-framed tokens, one token per iteration of the loop of read.        *)
(***************************************************************************)
\* the tokens the stream may hold next: every kind, with indexes around the
\* next free ID, IDs up to the first undeclared one, and wrong sizes
AdvTokens(ctx) ==
    LET nb == BlockIndex_len(ctx.block_index)
        ns == BlockIndex_len(ctx.superblock_index)
    IN {TokStart(0), TokOther(4)}
       \cup {TokNewBlock(i, ctx.block_size, data) :
                i \in (nb - 1)..(nb + 1), data \in [1..ctx.block_size -> DataBytes]}
       \cup {TokNewBlock(nb, ctx.block_size + 1, Zeros(ctx.block_size + 1))}
       \cup {TokNewSuperblock(i, ctx.superblock_size, data) :
                i \in (ns - 1)..(ns + 1), data \in [1..ctx.superblock_size -> 0..nb]}
       \cup {TokNewSuperblock(ns, ctx.superblock_size + 1, Zeros(ctx.superblock_size + 1))}
       \cup {TokSuperblockSeq(Len(data), data) : data \in SeqsUpTo(0..ns, MaxSeq)}

\* the end of a loop iteration: a decoder that has finished reads out
AdvAfter(d) ==
    IF d.status = "ok"
    THEN /\ adec' = Decoder_readout(d, CopyBufLen).d
         /\ aout' = Decoder_readout(d, CopyBufLen).out
    ELSE /\ adec' = d
         /\ aout' = aout

\* one iteration of the loop of read, on the token the stream holds
AdvToken ==
    /\ adec.status \in {"new", "run"}
    /\ atoks < MaxAdvToks
    /\ \E tok \in AdvTokens(adec.ctx) :
          /\ AdvAfter(Decoder_iter(
                 [(IF adec.status = "new" THEN Decoder_begin(adec) ELSE adec)
                     EXCEPT !.pos = 0],
                 TokenBytes(tok)))
          /\ ain' = [tok |-> tok, state |-> IF adec.status = "new" THEN "WaitForStart"
                                            ELSE adec.state,
                     blocks_before |-> BlockIndex_len(adec.ctx.block_index),
                     superblocks_before |-> BlockIndex_len(adec.ctx.superblock_index)]
    /\ atoks' = atoks + 1
    /\ UNCHANGED <<IdxVars, SSVars, RplyVars, TwinVars, FileVars, WideVars, ClockVars, UpVars>>

\* what the inner reader holds behind the record just read: another record
AdvBehind == TokensBytes(<<TokStart(1), TokSuperblockSeq(0, <<>>)>>)

\* a further call of read on a decoder that has finished, with a buffer of
\* any length and an inner reader that holds more bytes
AdvRead ==
    /\ adec.status = "ok"
    /\ \E outlen \in 0..CopyBufLen :
          /\ adec' = Decoder_read(adec, TokenBytes(ain.tok) \o AdvBehind, outlen).d
          /\ aout' = aout \o Decoder_read(adec, TokenBytes(ain.tok) \o AdvBehind, outlen).out
    /\ UNCHANGED <<ain, atoks>>
    /\ UNCHANGED <<IdxVars, SSVars, RplyVars, TwinVars, FileVars, WideVars, ClockVars, UpVars>>

\* Decoder::new for the next record, on the same context
AdvOpen ==
    /\ adec.status = "ok"
    /\ atoks < MaxAdvToks
    /\ \E n \in AdvSizes : adec' = Decoder_new(adec.ctx, n, 0)
    /\ ain' = NoToken
    /\ aout' = <<>>
    /\ UNCHANGED atoks
    /\ UNCHANGED <<IdxVars, SSVars, RplyVars, TwinVars, FileVars, WideVars, ClockVars, UpVars>>

AdvInit ==
    /\ \E g \in AdvGeometries, n \in AdvSizes :
          \E ctx \in AdvContexts(g) : AdvStartOn(ctx, n)
    /\ IdxIdle
    /\ SSIdle
    /\ RplyIdle
    /\ TwinIdle
    /\ FileIdle
    /\ WideIdle
    /\ ClockIdle
    /\ UpIdle

AdvNext == AdvToken \/ AdvRead \/ AdvOpen

SpecAdv == AdvInit /\ [][AdvNext]_vars

\* C7 (I1): every block ID stored in an entry of the decoder's superblock
\* index is smaller than the current length of its block index.
I1_NoForwardBlockRefs ==
    \A s \in 1..BlockIndex_len(adec.ctx.superblock_index) :
        \A k \in 1..Len(adec.ctx.superblock_index.objects[s]) :
            adec.ctx.superblock_index.objects[s][k] < BlockIndex_len(adec.ctx.block_index)

\* C8 (I2): after a SuperblockSeq token that lists a superblock ID greater
\* than or equal to the length the superblock index had, the decoder has
\* stopped with a fatal error, is not Finished, and has yielded no byte.
I2_NoForwardSuperblockRefs ==
    (/\ ain.tok.t = SSToken_SuperblockSeq
     /\ \E k \in 1..Len(ain.tok.data) : ain.tok.data[k] >= ain.superblocks_before)
    => /\ adec.status \in {"panic", "ParseError"}
       /\ ~adec.finished
       /\ adec.state # "Finished"
       /\ aout = <<>>

\* a SuperblockSeq arrived in WaitForSuperblockSeq whose second entry is the
\* first undeclared superblock ID, after a superblock had been declared
I2_Witness ==
    /\ ain.tok.t = SSToken_SuperblockSeq
    /\ ain.state = "WaitForSuperblockSeq"
    /\ ain.superblocks_before = 2
    /\ ain.tok.data = <<1, 2>>
    /\ adec.status = "panic"

\* C26: a token other than Start that is the first token of a record (a
\* NewBlock, NewSuperblock or SuperblockSeq, or an unknown token value) ends
\* the read with an error, leaves the block index, the superblock index and
\* last_state as they were, and yields no output byte.
FirstTokenMustBeStart ==
    [][(adec.status = "new" /\ atoks' = atoks + 1 /\ ain'.tok.t # SSToken_Start)
       => /\ adec'.status = (IF ain'.tok.t > SSToken_SuperblockSeq
                             THEN "InvalidToken" ELSE "ParseError")
          /\ adec'.ctx = adec.ctx
          /\ ~adec'.finished
          /\ adec'.state = "WaitForStart"
          /\ aout' = aout
          /\ aout' = <<>>]_vars

\* a NewBlock with the next free index and the right size arrived first, on a
\* context that already holds a declared block, and was refused
FirstTokenMustBeStart_Witness ==
    /\ ain.state = "WaitForStart"
    /\ ain.tok.t = SSToken_NewBlock
    /\ ain.tok.index = ain.blocks_before
    /\ ain.blocks_before = 2
    /\ ain.tok.len = adec.ctx.block_size
    /\ adec.status = "ParseError"
    /\ BlockIndex_len(adec.ctx.block_index) = 2

\* C27: a Start token that arrives after the record's first Start and before
\* its SuperblockSeq ends the read with TooManyStarts: the decoder is not
\* Finished, no index has changed and no byte is yielded.
SecondStartIsFatal ==
    /\ [][(/\ adec.status = "run"
           /\ adec.state = "WaitForSuperblockSeq"
           /\ atoks' = atoks + 1
           /\ ain'.tok.t = SSToken_Start)
          => /\ adec'.status = "TooManyStarts"
             /\ ~adec'.finished
             /\ adec'.state # "Finished"
             /\ adec'.ctx = adec.ctx
             /\ aout' = <<>>]_vars
    /\ [](adec.status = "TooManyStarts"
          => ~adec.finished /\ adec.state = "WaitForSuperblockSeq" /\ aout = <<>>)

\* a second Start arrived after the record had declared a block
SecondStartIsFatal_Witness ==
    /\ ain.tok.t = SSToken_Start
    /\ ain.state = "WaitForSuperblockSeq"
    /\ ain.blocks_before = 2
    /\ adec.status = "TooManyStarts"
    /\ atoks >= 3

\* C28: the decoder yields no byte before the SuperblockSeq of its record has
\* been consumed; once Finished, successive reads yield the bytes of last_state
\* in order, state_size bytes in all, then 0 bytes, and consume nothing from
\* the inner reader.
DegenerateByteStream ==
    /\ [](~adec.finished => aout = <<>>)
    /\ [](adec.finished
          => /\ adec.status = "ok"
             /\ ain.tok.t = SSToken_SuperblockSeq
             /\ Len(adec.ctx.last_state) = adec.state_size
             /\ adec.readout_cursor <= adec.state_size
             /\ aout = Slice(adec.ctx.last_state, 0, adec.readout_cursor)
             /\ (adec.readout_cursor < adec.state_size
                 => ENABLED (AdvRead /\ Len(aout') > Len(aout))))
    /\ [][(adec.finished /\ adec'.finished)
          => /\ adec'.pos = adec.pos
             /\ adec'.ctx = adec.ctx
             /\ adec'.status = "ok"
             /\ Len(aout') - Len(aout) \in 0..CopyBufLen
             /\ (adec.readout_cursor = adec.state_size => aout' = aout)]_vars

\* a state of three bytes, not all equal, has been read out whole by a read
\* that finished the record and a further read
DegenerateByteStream_Witness ==
    /\ adec.finished
    /\ adec.state_size = 3
    /\ adec.readout_cursor = 3
    /\ aout = adec.ctx.last_state
    /\ aout[1] # aout[3]

\* the byte the superblock sequence superseq names for address a of the state
SuperseqByte(ctx, superseq, a) ==
    LET superblock_byte_size == ctx.superblock_size * ctx.block_size
        superblock_data == BlockIndex_get(ctx.superblock_index,
                                          superseq[(a \div superblock_byte_size) + 1])
        block_id == superblock_data[((a \div ctx.block_size) % ctx.superblock_size) + 1]
    IN BlockIndex_get(ctx.block_index, block_id)[(a % ctx.block_size) + 1]

\* C31: after the decoder has accepted a SuperblockSeq [s_0..s_{K-1}] with
\* state size N, the byte at every address a below min(N, K * superblock_size
\* * block_size) is byte (a mod block_size) of the block that superblock
\* s_(a div (superblock_size * block_size)) names at position ((a div
\* block_size) mod superblock_size); last_state has N bytes and no more, and
\* last_superseq is [s_0..s_{K-1}].
Reconstruction ==
    (adec.finished /\ ain.tok.t = SSToken_SuperblockSeq)
    => /\ Len(adec.ctx.last_state) = adec.state_size
       /\ adec.ctx.last_superseq = ain.tok.data
       /\ \A a \in 0..(Min(adec.state_size,
                             Len(ain.tok.data) * adec.ctx.superblock_size
                                * adec.ctx.block_size) - 1) :
             adec.ctx.last_state[a + 1] = SuperseqByte(adec.ctx, ain.tok.data, a)

\* a state of three bytes was rebuilt from two different superblocks of one
\* block of two bytes each, the second block, declared in this record, cut to
\* one byte
Reconstruction_Witness ==
    /\ adec.finished
    /\ adec.ctx.block_size = 2
    /\ adec.state_size = 3
    /\ Len(ain.tok.data) = 2
    /\ ain.tok.data[1] # ain.tok.data[2]
    /\ adec.ctx.last_state = <<0, 0, 1>>
    /\ BlockIndex_get(adec.ctx.block_index,
                      BlockIndex_get(adec.ctx.superblock_index, ain.tok.data[2])[1]) = <<1, 0>>

\* C32: the bytes an accepted record decodes to are those its SuperblockSeq
\* names and nothing else: an address of the state that the sequence does not
\* reach holds the fill byte 0, never a byte of the checkpoint decoded before.
StateReplacedWhole ==
    (adec.finished /\ ain.tok.t = SSToken_SuperblockSeq)
    => \A a \in 0..(adec.state_size - 1) :
          adec.ctx.last_state[a + 1]
             = IF a < Len(ain.tok.data) * adec.ctx.superblock_size * adec.ctx.block_size
               THEN SuperseqByte(adec.ctx, ain.tok.data, a)
               ELSE 0

\* C33: on a context shared by all records of a replay, a NewBlock token is
\* accepted only if its index is the number of blocks in the block index and
\* its bin length is block_size, a NewSuperblock token only if its index is
\* the number of superblocks and its array length is superblock_size; any
\* other one fails with BlockWrongSize, SuperblockWrongSize, BadBlockInsert
\* or BadSuperblockInsert and leaves the index as it was.
DeclarationsInOrder ==
    [][(/\ adec.status = "run"
        /\ adec.state = "WaitForSuperblockSeq"
        /\ atoks' = atoks + 1)
       => /\ ain'.tok.t = SSToken_NewBlock
             => IF ain'.tok.len # adec.ctx.block_size
                THEN adec'.status = "BlockWrongSize" /\ adec'.ctx = adec.ctx
                ELSE IF ain'.tok.index # BlockIndex_len(adec.ctx.block_index)
                THEN adec'.status = "BadBlockInsert" /\ adec'.ctx = adec.ctx
                ELSE /\ adec'.status = "run"
                     /\ adec'.ctx.block_index.objects
                           = Append(adec.ctx.block_index.objects, ain'.tok.data)
                     /\ adec'.ctx.superblock_index = adec.ctx.superblock_index
          /\ ain'.tok.t = SSToken_NewSuperblock
             => IF ain'.tok.len # adec.ctx.superblock_size
                THEN adec'.status = "SuperblockWrongSize" /\ adec'.ctx = adec.ctx
                ELSE IF ain'.tok.index # BlockIndex_len(adec.ctx.superblock_index)
                THEN adec'.status = "BadSuperblockInsert" /\ adec'.ctx = adec.ctx
                ELSE /\ adec'.status = "run"
                     /\ adec'.ctx.superblock_index.objects
                           = Append(adec.ctx.superblock_index.objects, ain'.tok.data)
                     /\ adec'.ctx.block_index = adec.ctx.block_index]_vars

\* in a later record of the replay, a NewBlock of the right size that names
\* an ID an earlier record had declared was refused
DeclarationsInOrder_Witness ==
    /\ ain.tok.t = SSToken_NewBlock
    /\ ain.state = "WaitForSuperblockSeq"
    /\ ain.blocks_before = 2
    /\ ain.tok.index = 1
    /\ ain.tok.len = adec.ctx.block_size
    /\ adec.ctx.last_state # <<>>
    /\ adec.status = "BadBlockInsert"
    /\ BlockIndex_len(adec.ctx.block_index) = 2

(***************************************************************************)
(* SpecRply: a caller opens an encoder, writes frames, finishes, then      *)
(* opens a decoder on the stream and reads frames until one fails.         *)
(***************************************************************************)
RplyWriteFrame ==
    /\ renc.status = "ok"
    /\ ~renc.finished
    /\ Len(rin.frames) < MaxFrames
    /\ \E f \in RplyFrames :
          /\ renc' = ReplayEncoder_write_frame(renc, f)
          /\ rin' = [rin EXCEPT !.frames = Append(@, f)]
    /\ UNCHANGED <<rdec, ropen, rframe, rout, rclosed>>
    /\ UNCHANGED <<IdxVars, SSVars, AdvVars, TwinVars, FileVars, WideVars, ClockVars, UpVars>>

RplyFinish ==
    /\ renc.status = "ok"
    /\ renc' = ReplayEncoder_finish(renc)
    /\ UNCHANGED <<rin, rdec, ropen, rframe, rout, rclosed>>
    /\ UNCHANGED <<IdxVars, SSVars, AdvVars, TwinVars, FileVars, WideVars, ClockVars, UpVars>>

\* what the caller holds after ReplayDecoder::new returned d
RplyOpened(d) ==
    /\ rdec' = d
    /\ ropen' = d.status

RplyOpen ==
    /\ renc.finished
    /\ ropen = "none"
    /\ RplyOpened(ReplayDecoder_new(renc.file))
    /\ UNCHANGED <<renc, rin, rframe, rout, rclosed>>
    /\ UNCHANGED <<IdxVars, SSVars, AdvVars, TwinVars, FileVars, WideVars, ClockVars, UpVars>>

\* what the caller holds after read_frame returned r
RplyRead(r) ==
    /\ rdec' = r.d
    /\ rframe' = r.frame
    /\ rout' = IF r.d.status = "ok" THEN Append(rout, r.frame) ELSE rout

RplyReadFrame ==
    /\ rdec.status = "ok"
    /\ RplyRead(ReplayDecoder_read_frame(rdec, renc.file, rframe))
    /\ UNCHANGED <<renc, rin, ropen, rclosed>>
    /\ UNCHANGED <<IdxVars, SSVars, AdvVars, TwinVars, FileVars, WideVars, ClockVars, UpVars>>

RplyInit ==
    /\ \E h \in RplyHeaders, initial \in RplyInitials : RplyStart(h, initial)
    /\ IdxIdle
    /\ SSIdle
    /\ AdvIdle
    /\ TwinIdle
    /\ FileIdle
    /\ WideIdle
    /\ ClockIdle
    /\ UpIdle

RplyNext == RplyWriteFrame \/ RplyFinish \/ RplyOpen \/ RplyReadFrame

SpecRply == RplyInit /\ [][RplyNext]_vars

\* the fields of a header other than the sizes the encoder fills in
HeaderSame(a, h) ==
    /\ a.kind = h.kind
    /\ a.version = h.version
    /\ a.content_crc = h.content_crc
    /\ a.identifier = h.identifier
    /\ a.block_size = h.block_size
    /\ a.superblock_size = h.superblock_size
    /\ a.checkpoint_commit_interval = h.checkpoint_commit_interval
    /\ a.checkpoint_commit_threshold = h.checkpoint_commit_threshold
    /\ a.checkpoint_compression = h.checkpoint_compression

FrameSame(a, f) ==
    /\ a.key_events = f.key_events
    /\ a.input_events = f.input_events
    /\ a.checkpoint_bytes = f.checkpoint_bytes

\* C1 (R1): once a decoder has been opened on the stream an encoder wrote for
\* a version 2 header, an initial state and frames, the open succeeded, the
\* decoder's header is the caller's but for the size fields, its initial
\* state is the caller's, the frames read so far are the first frames
\* written, and reading fails only after all of them.
R1_ContainerRoundTrip ==
    (rin.header.version = 2 /\ ropen # "none")
    => /\ ropen = "ok"
       /\ HeaderSame(rdec.header, rin.header)
       /\ rdec.initial_state = rin.initial
       /\ Len(rout) <= Len(rin.frames)
       /\ \A k \in 1..Len(rout) :
              k <= Len(rin.frames) => FrameSame(rout[k], rin.frames[k])
       /\ (rdec.status # "ok" => Len(rout) = Len(rin.frames))

\* C11 (S1): a decoder opened on the stream an encoder wrote for a version 2
\* header, an empty initial state and no frame opens without error, and each
\* header field other than frame_count reads back with the value written.
S1_HeaderOnly ==
    (/\ rin.header.version = 2
     /\ rin.initial = <<>>
     /\ rin.frames = <<>>
     /\ ropen # "none")
    => /\ ropen = "ok"
       /\ HeaderSame(rdec.header, rin.header)
       /\ rdec.header.initial_state_size = rin.header.initial_state_size

\* the initial_state_size field of the header on disk
DiskInitialStateSize(file) == LEValue(Slice(file, 12, 16))

\* C13: when ReplayEncoder::new has returned for a version 2 header, the
\* initial_state_size on disk is the size of the initial checkpoint record,
\* stream position minus 40, and it is 0 when the initial state is empty.
InitialStateSizeOnDisk ==
    (/\ rin.header.version = 2
     /\ rin.frames = <<>>
     /\ ~renc.finished)
    => DiskInitialStateSize(renc.file)
           = IF rin.initial = <<>> THEN 0 ELSE renc.pos - HEADERV2_LEN_BYTES

CheckpointRecordAt(file, cp, compression, cp_bytes, r, pos) ==
    /\ file[cp + 1] = compression
    /\ file[cp + 2] = Encoding_Statestream
    /\ read_le(file, cp + 2, 4).v = Len(cp_bytes)
    /\ read_le(file, cp + 6, 4).v = r.ret
    /\ read_le(file, cp + 10, 4).v = pos - (cp + 14)
    /\ read_le(file, cp + 10, 4).v = read_le(file, cp + 6, 4).v
    /\ Slice(file, cp + 14, pos) = r.bytes

\* C35: after the encoder has written a checkpoint record, the field at
\* offset 2 of the record holds the length of the caller's state, the field at
\* offset 6 the size the state-stream encoder returned, the field at offset 10
\* the number of payload bytes that follow offset 14 (the same number,
\* compression being None), and the stream stands at the end of the payload.
CheckpointRecordSizes ==
    /\ []((renc.status = "ok" /\ rin.initial # <<>>)
          => /\ CheckpointRecordAt(renc.file, HEADERV2_LEN_BYTES,
                     rin.header.checkpoint_compression, rin.initial,
                     Encoder_encode_checkpoint(
                         Ctx_new(rin.header.block_size, rin.header.superblock_size),
                         rin.initial, 0),
                     HEADERV2_LEN_BYTES + DiskInitialStateSize(renc.file))
             /\ rin.frames = <<>> => renc.pos = HEADERV2_LEN_BYTES + DiskInitialStateSize(renc.file))
    /\ [][(/\ Len(rin'.frames) = Len(rin.frames) + 1
           /\ renc'.status = "ok"
           /\ rin'.frames[Len(rin'.frames)].checkpoint_bytes # <<>>)
          => /\ CheckpointRecordAt(renc'.file,
                     renc.pos + 8 + 12 * Len(rin'.frames[Len(rin'.frames)].key_events)
                              + 8 * Len(rin'.frames[Len(rin'.frames)].input_events),
                     rin.header.checkpoint_compression,
                     rin'.frames[Len(rin'.frames)].checkpoint_bytes,
                     Encoder_encode_checkpoint(renc.ss_state,
                         rin'.frames[Len(rin'.frames)].checkpoint_bytes,
                         renc.frame_number),
                     renc'.pos)
             /\ renc'.pos > renc.pos + 8 + 14]_vars

\* after a non-empty initial state, a frame with a key event, an input event
\* and a checkpoint of two bytes was written as the second frame
CheckpointRecordSizes_Witness ==
    /\ renc.status = "ok"
    /\ rin.initial = <<0, 1, 1>>
    /\ Len(rin.frames) = 2
    /\ rin.frames[2] = RplyFrame(<<RplyKey>>, <<RplyInput>>, <<1, 1>>)
    /\ renc.pos = Len(renc.file)
    /\ read_le(renc.file, renc.last_pos + 8 + 12 + 8 + 2, 4).v = 2

\* C38: encoder and decoder agree on the presence of the initial checkpoint
\* record: the encoder writes one at offset 40 only when the initial state is
\* non-empty and the decoder of a version 2 stream consumes one only then, so
\* that a stream written with an empty initial state and then frames opens
\* with an empty initial_state, the decoder standing behind the header, and
\* its first read_frame returns the first frame written.
InitialCheckpointAgreed ==
    (/\ rin.header.version = 2
     /\ rin.initial = <<>>
     /\ rin.frames # <<>>
     /\ ropen # "none")
    => /\ ropen = "ok"
       /\ rdec.initial_state = <<>>
       /\ rout = <<>> => rdec.pos = HEADERV2_LEN_BYTES
       /\ rout # <<>> => FrameSame(rout[1], rin.frames[1])

(***************************************************************************)
(* SpecClose: the life of one encoder.  The caller calls write_frame and   *)
(* finish in any order and any number of times, then drops the encoder.    *)
(***************************************************************************)
CloseWriteFrame ==
    /\ ~rclosed
    /\ renc.status = "ok"
    /\ Len(rin.frames) < MaxFrames
    /\ \E f \in RplyFrames :
          /\ renc' = ReplayEncoder_write_frame(renc, f)
          /\ rin' = [rin EXCEPT !.frames = Append(@, f)]
    /\ UNCHANGED <<rdec, ropen, rframe, rout, rclosed>>
    /\ UNCHANGED <<IdxVars, SSVars, AdvVars, TwinVars, FileVars, WideVars, ClockVars, UpVars>>

CloseFinish ==
    /\ ~rclosed
    /\ renc.status = "ok"
    /\ renc' = ReplayEncoder_finish(renc)
    /\ UNCHANGED <<rin, rdec, ropen, rframe, rout, rclosed>>
    /\ UNCHANGED <<IdxVars, SSVars, AdvVars, TwinVars, FileVars, WideVars, ClockVars, UpVars>>

\* Drop for ReplayEncoder: self.finish().unwrap()
CloseDrop ==
    /\ ~rclosed
    /\ renc.status = "ok"
    /\ renc' = ReplayEncoder_finish(renc)
    /\ rclosed' = TRUE
    /\ UNCHANGED <<rin, rdec, ropen, rframe, rout>>
    /\ UNCHANGED <<IdxVars, SSVars, AdvVars, TwinVars, FileVars, WideVars, ClockVars, UpVars>>

CloseNext == CloseWriteFrame \/ CloseFinish \/ CloseDrop

SpecClose == RplyInit /\ [][CloseNext]_vars

\* the frame_count field of the header on disk
DiskFrameCount(file) == LEValue(Slice(file, 24, 28))

\* C12: once the encoder has been closed, the frame_count of its header, in
\* memory and on disk, is the number of write_frame calls that succeeded.
FinalFrameCount ==
    rclosed
    => /\ renc.header.frame_count = Len(rin.frames)
       /\ DiskFrameCount(renc.file) = Len(rin.frames)

(***************************************************************************)
(* SpecTwin: two encoders of one process are given the same header, the    *)
(* same initial state and the same frames, their calls interleaved in any  *)
(* order; every call runs the process-wide stopwatches.                    *)
(***************************************************************************)
\* every encoder shares the state-stream context of the first
TwinEncoder_shared_ctx(i) == [tenc[i] EXCEPT !.ss_state = tenc[1].ss_state]

\* the encoder of caller i: its fields are its own
TwinEncoder(i) == tenc[i]

\* the frame caller i writes next is the next one of the common sequence,
\* which the caller that is ahead extends
TwinWrite(i) ==
    /\ tenc[i].status = "ok"
    /\ ~tenc[i].finished
    /\ tenc[i].frame_number < MaxFrames
    /\ \E f \in (IF tenc[i].frame_number < Len(tin.frames)
                 THEN {tin.frames[tenc[i].frame_number + 1]}
                 ELSE RplyFrames) :
          /\ tenc' = [tenc EXCEPT ![i] = ReplayEncoder_write_frame(TwinEncoder(i), f)]
          /\ tin' = IF tenc[i].frame_number < Len(tin.frames) THEN tin
                    ELSE [tin EXCEPT !.frames = Append(@, f)]
          /\ clock' = ClockTick(ClockTick(clock, "EncodeFrame", 1), "EncodeCheckpoint",
                                IF f.checkpoint_bytes = <<>> THEN 0 ELSE 1)
    /\ UNCHANGED <<IdxVars, SSVars, AdvVars, RplyVars, FileVars, WideVars, ClockVars, UpVars>>

TwinFinish(i) ==
    /\ tenc[i].status = "ok"
    /\ ~tenc[i].finished
    /\ tenc' = [tenc EXCEPT ![i] = ReplayEncoder_finish(TwinEncoder(i))]
    /\ UNCHANGED <<tin, clock>>
    /\ UNCHANGED <<IdxVars, SSVars, AdvVars, RplyVars, FileVars, WideVars, ClockVars, UpVars>>

TwinInit ==
    /\ \E h \in RplyHeaders, initial \in RplyInitials : TwinStart(h, initial)
    /\ IdxIdle
    /\ SSIdle
    /\ AdvIdle
    /\ RplyIdle
    /\ FileIdle
    /\ WideIdle
    /\ ClockIdle
    /\ UpIdle

TwinNext == \E i \in 1..2 : TwinWrite(i) \/ TwinFinish(i)

SpecTwin == TwinInit /\ [][TwinNext]_vars

FileCut ==
    /\ ropen = "none"
    /\ fmeta.cut = fmeta.full
    /\ \E n \in 0..(fmeta.full - 1) :
          /\ fstream' = SubSeq(fstream, 1, n)
          /\ fmeta' = [fmeta EXCEPT !.cut = n]
    /\ UNCHANGED RplyVars
    /\ UNCHANGED <<IdxVars, SSVars, AdvVars, TwinVars, WideVars, ClockVars, UpVars>>

FileOpen ==
    /\ ropen = "none"
    /\ RplyOpened(ReplayDecoder_new(fstream))
    /\ UNCHANGED <<renc, rin, rframe, rout, rclosed>>
    /\ UNCHANGED <<IdxVars, SSVars, AdvVars, TwinVars, FileVars, WideVars, ClockVars, UpVars>>

FileReadFrame ==
    /\ ropen = "ok"
    /\ rdec.status \in {"ok", "NoCoreRead", "BadFrameToken"}
    /\ fmeta.reads < MaxFrames + 2
    /\ RplyRead(ReplayDecoder_read_frame(rdec, fstream, rframe))
    /\ fmeta' = [fmeta EXCEPT !.reads = @ + 1]
    /\ UNCHANGED <<renc, rin, ropen, rclosed, fstream>>
    /\ UNCHANGED <<IdxVars, SSVars, AdvVars, TwinVars, WideVars, ClockVars, UpVars>>

FileInit ==
    /\ \/ \E magic \in {MAGIC, MAGIC - 1}, version \in 0..3 :
             FileCrafted(magic, version, <<>>)
       \/ \E version \in 0..2, first \in FileItems,
             rest \in SeqsUpTo(FileTails, MaxFrames - 1) :
             /\ version = 0 => rest = <<>>
             /\ FileCrafted(MAGIC, version, <<first>> \o rest)
       \/ \E frames \in SeqsUpTo({f \in RplyFrames : f.input_events = <<>>},
                                  MaxFrames) :
             FileEncoded(HeaderV2(2, 7, 0, 9, 0, 1, 2, 4, 2, Compression_None),
                         <<0, 1, 1>>, frames)
    /\ IdxIdle
    /\ SSIdle
    /\ AdvIdle
    /\ \E frame \in FileCallerFrames : FileCaller(frame)
    /\ TwinIdle
    /\ WideIdle
    /\ ClockIdle
    /\ UpIdle

FileNext == FileCut \/ FileOpen \/ FileReadFrame

SpecFile == FileInit /\ [][FileNext]_vars

\* C14 (S6): ReplayDecoder::new on a stream whose first four bytes are not
\* the magic returns Magic having read those four bytes only; on a stream
\* with the magic and a version above 2 it returns Version; either way no
\* decoder is produced.
S6_MagicVersionGate ==
    ropen # "none"
    => /\ (fmeta.cut >= 4 /\ fmeta.magic # MAGIC)
          => (ropen = "Magic" /\ rdec.pos = 4 /\ rdec = ReplayDecoder_failed(4, "Magic"))
       /\ (fmeta.cut >= 8 /\ fmeta.magic = MAGIC /\ fmeta.version > 2)
          => (ropen = "Version" /\ rdec = ReplayDecoder_failed(8, "Version"))

\* new returned Magic on a whole stream whose every other field is good
S6_Witness ==
    /\ ropen = "Magic"
    /\ fmeta.magic # MAGIC
    /\ fmeta.version = 2
    /\ Len(fstream) > HEADERV2_LEN_BYTES
    /\ rdec.pos = 4

\* the offset just past record k of the stream as it was laid out
FileRecordEnd(k) ==
    IF k < Len(fmeta.starts) THEN fmeta.starts[k + 1] ELSE fmeta.full

FileTokens == {FrameToken_Regular, FrameToken_Checkpoint, FrameToken_Checkpoint2}

\* the records before record k that carry one of the three tokens
FileReadable(k) == SelectSeq([j \in 1..(k - 1) |-> j], LAMBDA j : fmeta.toks[j] \in FileTokens)

\* the stream was cut inside record k, the k-1 calls before read the
\* records before it, and call k failed
FileCutInside(k) ==
    /\ ropen = "ok"
    /\ fmeta.version >= 1
    /\ fmeta.starts[k] < fmeta.cut
    /\ fmeta.cut < FileRecordEnd(k)
    /\ fmeta.reads = k
    /\ rdec.status # "ok"

\* C16 (S5): when the stream ends inside a frame record, at any offset,
\* inside a checkpoint record or a state-stream token included, the
\* read_frame call that meets the end returns an IO error of kind
\* unexpected-EOF ("IO"), and the frames returned by the calls before are
\* the frames that were written.
S5_Truncation ==
    \A k \in 1..Len(fmeta.frames) :
        FileCutInside(k)
        => /\ rdec.status = "IO"
           /\ Len(rout) = Len(FileReadable(k))
           /\ \A j \in 1..Len(rout) :
                  FrameSame(rout[j], fmeta.frames[FileReadable(k)[j]])

\* call k was made on a whole version 1 or 2 stream, so that it read
\* record k
FileReadRecord(k) ==
    /\ ropen = "ok"
    /\ fmeta.kind = "crafted"
    /\ fmeta.version >= 1
    /\ fmeta.cut = fmeta.full
    /\ k <= Len(fmeta.toks)
    /\ fmeta.reads = k

\* C17: read_frame on a version 1 or 2 stream accepts the token bytes 'f',
\* 'c' and 'C' and no other: on any other byte it returns BadFrameToken,
\* having read that byte, and leaves frame_number as it was.
FrameTokensAccepted ==
    \A k \in 1..(MaxFrames + 1) :
        FileReadRecord(k)
        => IF fmeta.toks[k] \in FileTokens
           THEN /\ rdec.status # "BadFrameToken"
                /\ fmeta.toks[k] # FrameToken_Checkpoint2 => rdec.status = "ok"
                /\ rdec.status = "ok" => rdec.frame_number = Len(FileReadable(k)) + 1
           ELSE /\ rdec.status = "BadFrameToken"
                /\ rdec.frame_number = Len(FileReadable(k))
                /\ Len(rout) = Len(FileReadable(k))
                /\ fstream[rdec.pos] = fmeta.toks[k]

\* the second call met a token byte that is none of the three, after a
\* first call that read a Checkpoint2 record
FrameTokensAccepted_Witness ==
    /\ FileReadRecord(2)
    /\ fmeta.toks[1] = FrameToken_Checkpoint2
    /\ fmeta.toks[2] = 120
    /\ rdec.status = "BadFrameToken"
    /\ rdec.frame_number = 1

\* C18: every read_frame call on a decoder whose header version is 0 returns
\* NoCoreRead, leaves the stream where it was, and leaves frame_number and
\* the caller's frame as they were.
NoCoreReadOnVersion0 ==
    [][(ropen = "ok" /\ rdec.header.version = 0 /\ fmeta'.reads = fmeta.reads + 1)
       => /\ rdec'.status = "NoCoreRead"
          /\ rdec'.pos = rdec.pos
          /\ rdec'.frame_number = rdec.frame_number
          /\ rdec'.frame_number = 0
          /\ rframe' = rframe
          /\ rout' = <<>>]_vars

\* read_frame was called twice on a version 0 stream that holds a record,
\* with a frame an earlier use had filled
NoCoreReadOnVersion0_Witness ==
    /\ ropen = "ok"
    /\ rdec.header.version = 0
    /\ fmeta.cut = fmeta.full
    /\ Len(fmeta.toks) = 1
    /\ fmeta.reads = 2
    /\ rframe # Frame_default
    /\ rdec.status = "NoCoreRead"

\* C37: the decoder's frame_number is 0 after new and, after any sequence of
\* read_frame calls, the number of those calls that returned successfully:
\* each success adds exactly one and each failing call leaves it unchanged.
FrameNumberCountsReads ==
    /\ []((ropen = "ok" /\ fmeta.reads = 0) => rdec.frame_number = 0)
    /\ [](ropen = "ok" => rdec.frame_number = Len(rout))
    /\ [][fmeta'.reads = fmeta.reads + 1
          => rdec'.frame_number
             = rdec.frame_number + (IF rdec'.status = "ok" THEN 1 ELSE 0)]_vars

\* three calls on a whole stream of two records: the first met a bad token,
\* the second returned a frame, the third met the end of the stream
FrameNumberCountsReads_Witness ==
    /\ ropen = "ok"
    /\ fmeta.reads = 3
    /\ fmeta.cut = fmeta.full
    /\ fmeta.toks = <<120, FrameToken_Checkpoint2>>
    /\ rdec.status = "IO"
    /\ rdec.frame_number = 1
    /\ Len(rout) = 1

(***************************************************************************)
(* SpecLimits: an encoder is given frames whose event counts are at and    *)
(* beyond the widths of the count fields; after a refusal the caller goes  *)
(* on writing, and finishes.  rin.frames are the frames handed to          *)
(* write_frame, refused ones included.                                     *)
(***************************************************************************)
LimitWriteFrame ==
    /\ ~renc.finished
    /\ Len(rin.frames) < MaxFrames + 1
    /\ \E f \in LimitFrames :
          /\ renc' = ReplayEncoder_write_frame([renc EXCEPT !.status = "ok"], f)
          /\ rin' = [rin EXCEPT !.frames = Append(@, f)]
    /\ UNCHANGED <<rdec, ropen, rframe, rout, rclosed>>
    /\ UNCHANGED <<IdxVars, SSVars, AdvVars, TwinVars, FileVars, WideVars, ClockVars, UpVars>>

LimitFinish ==
    /\ ~renc.finished
    /\ renc' = ReplayEncoder_finish([renc EXCEPT !.status = "ok"])
    /\ UNCHANGED <<rin, rdec, ropen, rframe, rout, rclosed>>
    /\ UNCHANGED <<IdxVars, SSVars, AdvVars, TwinVars, FileVars, WideVars, ClockVars, UpVars>>

LimitInit ==
    /\ RplyStart(HeaderV2(2, 7, 0, 9, 0, 1, 2, 4, 2, Compression_None), <<1>>)
    /\ IdxIdle
    /\ SSIdle
    /\ AdvIdle
    /\ TwinIdle
    /\ FileIdle
    /\ WideIdle
    /\ ClockIdle
    /\ UpIdle

LimitNext == LimitWriteFrame \/ LimitFinish

SpecLimits == LimitInit /\ [][LimitNext]_vars

\* the event counts of frame f fit their fields
LimitFits(f) == Len(f.key_events) <= U8_MAX /\ Len(f.input_events) <= U16_MAX

\* the last frame handed to write_frame
LimitLast == rin.frames[Len(rin.frames)]

\* C19: write_frame given more than 255 key events returns
\* TooManyKeyEvents, given more than 65535 input events TooManyInputEvents,
\* and no other frame is refused; a refused frame changes neither
\* frame_number nor last_pos, and the frame_count finish writes is the
\* number of frames that were not refused.
EventCountLimits ==
    /\ [][Len(rin'.frames) = Len(rin.frames) + 1
          => /\ renc'.status = "TooManyKeyEvents"
                <=> Len(LimitLast'.key_events) > U8_MAX
             /\ renc'.status = "TooManyInputEvents"
                <=> (Len(LimitLast'.key_events) <= U8_MAX
                     /\ Len(LimitLast'.input_events) > U16_MAX)
             /\ renc'.status = "ok" <=> LimitFits(LimitLast')
             /\ ~LimitFits(LimitLast')
                => /\ renc'.frame_number = renc.frame_number
                   /\ renc'.last_pos = renc.last_pos]_vars
    /\ [](renc.frame_number = Len(SelectSeq(rin.frames, LimitFits)))
    /\ [](renc.finished
          => DiskFrameCount(renc.file) = Len(SelectSeq(rin.frames, LimitFits)))

\* a frame of 255 key events was accepted, one of 65536 input events and
\* one of 256 key events were refused, and the encoder was finished
EventCountLimits_Witness ==
    /\ renc.finished
    /\ \E i, j, k \in 1..Len(rin.frames) :
          /\ Len(rin.frames[i].key_events) = U8_MAX
          /\ Len(rin.frames[j].key_events) = U8_MAX + 1
          /\ Len(rin.frames[k].key_events) = 1
          /\ Len(rin.frames[k].input_events) = U16_MAX + 1
    /\ DiskFrameCount(renc.file) = 1

(***************************************************************************)
(* SpecWide: the frame counter at its full width.  An encoder that has     *)
(* written n frames, n being any u64 near a limb's edge, writes more and   *)
(* is finished.  Of the encoder only frame_number, the header's            *)
(* frame_count and the four frame_count bytes of the stream are kept.      *)
(***************************************************************************)
Limb == 65536

\* self.frame_number += 1 on a u64 below its maximum
RECURSIVE U64_inc(_, _)
U64_inc(n, i) ==
    IF i > Len(n) THEN n
    ELSE IF n[i] + 1 < Limb THEN [n EXCEPT ![i] = @ + 1]
    ELSE U64_inc([n EXCEPT ![i] = 0], i + 1)

\* u32::try_from(n) for a u64 n
U32_try_from(n) ==
    IF n[3] = 0 /\ n[4] = 0 THEN [ok |-> TRUE, v |-> <<n[1], n[2]>>]
    ELSE [ok |-> FALSE, v |-> <<0, 0>>]

\* Result::unwrap_or_default: u32::default() is 0
unwrap_or_default(r) == IF r.ok THEN r.v ELSE <<0, 0>>

\* u64::from(v) for a u32 v: Header::frame_count
U64_from(v) == <<v[1], v[2], 0, 0>>

\* write_u32::<LittleEndian>(v)
U32_bytes(v) == <<v[1] % 256, v[1] \div 256, v[2] % 256, v[2] \div 256>>

\* after set_frame_count(fc): the frame_count field is converted and written
WideWriteCount(w, fc) ==
    IF ~U32_try_from(U64_from(fc)).ok
    THEN [w EXCEPT !.frame_count = fc, !.status = "TooManyFrames"]
    ELSE [w EXCEPT !.frame_count = fc, !.status = "ok",
                   !.disk = U32_bytes(U32_try_from(U64_from(fc)).v)]

\* write_header, as far as the frame count goes
Wide_write_header(w) ==
    WideWriteCount(w, unwrap_or_default(U32_try_from(w.frame_number)))

WideFinishEnd(w) == IF w.status # "ok" THEN w ELSE [w EXCEPT !.finished = TRUE]

Wide_finish(w) ==
    IF w.finished THEN [w EXCEPT !.status = "ok"]
    ELSE WideFinishEnd(Wide_write_header(w))

\* a + b on u64, carry c coming into limb i
RECURSIVE U64_add(_, _, _, _)
U64_add(a, b, i, c) ==
    IF i > Len(a) THEN a
    ELSE U64_add([a EXCEPT ![i] = (a[i] + b[i] + c) % Limb], b, i + 1,
                 (a[i] + b[i] + c) \div Limb)

\* a - b on u64 for a >= b, borrow c coming into limb i
RECURSIVE U64_sub(_, _, _, _)
U64_sub(a, b, i, c) ==
    IF i > Len(a) THEN a
    ELSE U64_sub([a EXCEPT ![i] = (a[i] - b[i] - c + Limb) % Limb], b, i + 1,
                 IF a[i] - b[i] - c < 0 THEN 1 ELSE 0)

\* the lengths of the frame records written: a frame without events and
\* checkpoint, one with a key and an input event, and frames whose
\* checkpoint payload brings the record to 2^32 - 1, 2^32 and 2^32 + 21 bytes
WideLengths ==
    {<<8, 0, 0, 0>>, <<28, 0, 0, 0>>, <<Limb - 1, Limb - 1, 0, 0>>, <<0, 0, 1, 0>>,
     <<21, 0, 1, 0>>}

\* write_frame with last_pos set to the end of the record
Wide_write_frame_from_end(w, len, refused) ==
    IF ~U32_try_from(U64_sub(w.pos, w.last_pos, 1, 0)).ok
    THEN [w EXCEPT !.status = "FrameTooLong", !.writes = @ + 1]
    ELSE IF refused
    THEN [w EXCEPT !.backref = U32_try_from(U64_sub(w.pos, w.last_pos, 1, 0)).v,
                   !.pos = U64_add(w.pos, <<4, 0, 0, 0>>, 1, 0),
                   !.clean = FALSE,
                   !.status = "TooManyKeyEvents", !.writes = @ + 1]
    ELSE [w EXCEPT !.backref = U32_try_from(U64_sub(w.pos, w.last_pos, 1, 0)).v,
                   !.pos = U64_add(w.pos, len, 1, 0),
                   !.last_pos = U64_add(w.pos, len, 1, 0),
                   !.last_len = len,
                   !.clean = TRUE,
                   !.frame_number = U64_inc(@, 1),
                   !.status = "ok", !.writes = @ + 1]

\* write_frame of a frame whose record is len bytes long, or, if refused, of
\* one with more than 255 key events: the backref is written first, and a
\* refused frame leaves these four bytes in the stream
Wide_write_frame(w, len, refused) ==
    IF ~U32_try_from(U64_sub(w.pos, w.last_pos, 1, 0)).ok
    THEN [w EXCEPT !.status = "FrameTooLong", !.writes = @ + 1]
    ELSE IF refused
    THEN [w EXCEPT !.backref = U32_try_from(U64_sub(w.pos, w.last_pos, 1, 0)).v,
                   !.pos = U64_add(w.pos, <<4, 0, 0, 0>>, 1, 0),
                   !.clean = FALSE,
                   !.status = "TooManyKeyEvents", !.writes = @ + 1]
    ELSE [w EXCEPT !.backref = U32_try_from(U64_sub(w.pos, w.last_pos, 1, 0)).v,
                   !.pos = U64_add(w.pos, len, 1, 0),
                   !.last_pos = w.pos,
                   !.last_len = len,
                   !.clean = TRUE,
                   !.frame_number = U64_inc(@, 1),
                   !.status = "ok", !.writes = @ + 1]

WideWriteFrame ==
    /\ wide.writes < MaxFrames
    /\ \E len \in WideLengths, refused \in BOOLEAN :
          wide' = Wide_write_frame(wide, len, refused)
    /\ UNCHANGED <<IdxVars, SSVars, AdvVars, RplyVars, TwinVars, FileVars, ClockVars, UpVars>>

WideFinish ==
    /\ wide' = Wide_finish(wide)
    /\ UNCHANGED <<IdxVars, SSVars, AdvVars, RplyVars, TwinVars, FileVars, ClockVars, UpVars>>

\* n * 8 on u64
U64_times8(n) ==
    U64_add(U64_add(U64_add(n, n, 1, 0), U64_add(n, n, 1, 0), 1, 0),
            U64_add(U64_add(n, n, 1, 0), U64_add(n, n, 1, 0), 1, 0), 1, 0)

\* an encoder with an empty initial state that has written n frames: none,
\* or n - 1 frames without events and then one whose record is len bytes long
WideStart(n, len) ==
    IF n = <<0, 0, 0, 0>>
    THEN WideStartAt(n, <<HEADERV2_LEN_BYTES, 0, 0, 0>>, <<0, 0, 0, 0>>,
                     <<HEADERV2_LEN_BYTES, 0, 0, 0>>)
    ELSE WideStartAt(n,
             U64_add(U64_times8(n), <<HEADERV2_LEN_BYTES - 8, 0, 0, 0>>, 1, 0),
             len,
             U64_add(U64_add(U64_times8(n), <<HEADERV2_LEN_BYTES - 8, 0, 0, 0>>, 1, 0),
                     len, 1, 0))

WideInit ==
    /\ \E l0 \in {0, 1, 2, Limb - 2, Limb - 1}, l1 \in {0, 1, Limb - 1}, l2 \in {0, 1} :
          \E len \in WideLengths : WideStart(<<l0, l1, l2, 0>>, len)
    /\ IdxIdle
    /\ SSIdle
    /\ AdvIdle
    /\ RplyIdle
    /\ TwinIdle
    /\ FileIdle
    /\ ClockIdle
    /\ UpIdle

WideNext == WideWriteFrame \/ WideFinish

SpecWide == WideInit /\ [][WideNext]_vars

\* C20: when the number of frames written is more than the 32-bit
\* frame_count field holds, finish returns TooManyFrames and the frame_count
\* bytes of the stream are not replaced; when it fits, finish writes it.
TooManyFramesReported ==
    [][wide'.writes = wide.writes
       => IF U32_try_from(wide.frame_number).ok
          THEN /\ wide'.status = "ok"
               /\ wide'.finished
               /\ wide.finished \/ wide'.disk = U32_bytes(U32_try_from(wide.frame_number).v)
          ELSE /\ wide'.status = "TooManyFrames"
               /\ wide'.disk = wide.disk]_vars

FrameRecordSize ==
    [][(Len(rin'.frames) = Len(rin.frames) + 1 /\ renc'.status = "ok"
        /\ LimitLast'.checkpoint_bytes = <<>>)
       => /\ renc'.pos = renc.pos + 8 + 12 * Len(LimitLast'.key_events)
                                  + 8 * Len(LimitLast'.input_events)
          /\ renc'.last_pos = renc.pos
          /\ Len(renc'.file) >= renc'.pos]_vars

\* an empty frame of 8 bytes was written after a frame of 255 key events
FrameRecordSize_Witness ==
    /\ Len(rin.frames) = 2
    /\ Len(rin.frames[1].key_events) = U8_MAX
    /\ rin.frames[2] = RplyFrame(<<>>, <<>>, <<>>)
    /\ renc.status = "ok"
    /\ renc.pos = renc.last_pos + 8
    /\ renc.last_pos > HEADERV2_LEN_BYTES + 8 + 12 * U8_MAX
    /\ Len(renc.file) = renc.pos

\* where the token byte of record k lies in the stream (fstream[..] of it)
FileTokenAt(k) ==
    fmeta.starts[k] + Len(FrameHead(fmeta.frames[k], 0))
    - (IF fmeta.version < 2 THEN 4 ELSE 0) + 1

\* C22: after a read_frame that succeeded, the frame's checkpoint_compression
\* and checkpoint_encoding tell how the checkpoint of that frame was stored:
\* None and Raw for an 'f' or a 'c' record, and for a 'C' record the
\* compression and encoding bytes of its checkpoint record.
CheckpointMetadataFresh ==
    \A k \in 1..(MaxFrames + 1) :
        (FileReadRecord(k) /\ rdec.status = "ok")
        => IF fmeta.toks[k] = FrameToken_Checkpoint2
           THEN /\ rframe.checkpoint_compression = fstream[FileTokenAt(k) + 1]
                /\ rframe.checkpoint_encoding = fstream[FileTokenAt(k) + 2]
           ELSE /\ rframe.checkpoint_compression = Compression_None
                /\ rframe.checkpoint_encoding = Encoding_Raw

(***************************************************************************)
(* SpecClock: the threads of one process call count, counts, time and      *)
(* stats and drop their Stopwatches, in any interleaving.  Every access to *)
(* a static is Relaxed: a read-modify-write acts on the newest value of    *)
(* the cell, a load may return any value of the cell that is not older     *)
(* than one the thread has already seen.  The values stay far below 2^64,  *)
(* where fetch_add wraps.                                                  *)
(***************************************************************************)
\* the newest value in the modification order of a cell
Newest(st, cell) == st[cell][Len(st[cell])]

\* the values of a cell a load by thread t may return
Visible(st, t, cell) == t.seen[cell]..Len(st[cell])

\* an add that is a load followed by a store of the sum
fetch_add_torn(st, t, cell, amt) ==
    [st |-> [st EXCEPT ![cell] = Append(@, st[cell][t.seen[cell]] + amt)],
     t |-> [t EXCEPT !.seen[cell] = Len(st[cell]) + 1],
     old |-> st[cell][t.seen[cell]]]

\* AtomicU64::fetch_add(amt, Ordering::Relaxed) by thread t: returns the old
\* value
fetch_add(st, t, cell, amt) ==
    [st |-> [st EXCEPT ![cell] = Append(@, Newest(st, cell) + amt)],
     t |-> [t EXCEPT !.seen[cell] = Len(st[cell]) + 1],
     old |-> Newest(st, cell)]

\* AtomicU64::load(Ordering::Relaxed) by thread t, returning the i-th value
load(st, t, cell, i) == [t EXCEPT !.seen[cell] = i]

\* the value of a cell that thread t has seen last
SeenValue(st, t, cell) == st[cell][t.seen[cell]]

\* count(c, amt): returns the new value, which t has then seen
count(st, t, c, amt) ==
    [st |-> fetch_add(st, t, <<"COUNTS", c>>, amt).st,
     t |-> [fetch_add(st, t, <<"COUNTS", c>>, amt).t EXCEPT
               !.ops = @ + 1, !.added[c] = @ + amt]]

\* counts(c)
counts(st, t, c, i) == [load(st, t, <<"COUNTS", c>>, i) EXCEPT !.ops = @ + 1]

\* time(t): a Stopwatch of tag tag
time(t, tag) == [t EXCEPT !.sw = tag, !.ops = @ + 1]

\* Stopwatch::drop, the add to TIME_ACC of the microseconds elapsed
Stopwatch_drop_acc(st, t, micros) ==
    [st |-> fetch_add(st, t, <<"TIME_ACC", t.sw>>, micros).st,
     t |-> [fetch_add(st, t, <<"TIME_ACC", t.sw>>, micros).t EXCEPT !.pc = "drop"]]

\* Stopwatch::drop, the add to TIME_COUNTS
Stopwatch_drop_counts(st, t) ==
    [st |-> fetch_add(st, t, <<"TIME_COUNTS", t.sw>>, 1).st,
     t |-> [fetch_add(st, t, <<"TIME_COUNTS", t.sw>>, 1).t EXCEPT
               !.pc = "idle", !.sw = "none", !.dropped[t.sw] = @ + 1]]

\* stats(tag), the load of TIME_COUNTS
stats_count(st, t, tag, i) ==
    [load(st, t, <<"TIME_COUNTS", tag>>, i) EXCEPT
        !.pc = "stats", !.tag = tag, !.ops = @ + 1]

\* stats(tag), the load of TIME_ACC
stats_micros(st, t, i) ==
    [load(st, t, <<"TIME_ACC", t.tag>>, i) EXCEPT !.pc = "idle", !.tag = "none"]

\* a thread that makes no further call and holds no Stopwatch
ThreadEnded(t) == t.pc = "idle" /\ t.sw = "none" /\ t.ops = MaxClockOps

ClockCount(th) ==
    /\ thr[th].pc = "idle"
    /\ thr[th].ops < MaxClockOps
    /\ \E c \in Counters, amt \in Amounts :
          /\ statics' = count(statics, thr[th], c, amt).st
          /\ thr' = [thr EXCEPT ![th] = count(statics, thr[th], c, amt).t]
    /\ UNCHANGED <<IdxVars, SSVars, AdvVars, RplyVars, TwinVars, FileVars, WideVars, UpVars>>

ClockCounts(th) ==
    /\ thr[th].pc = "idle"
    /\ thr[th].ops < MaxClockOps
    /\ \E c \in Counters :
          \E i \in Visible(statics, thr[th], <<"COUNTS", c>>) :
             thr' = [thr EXCEPT ![th] = counts(statics, thr[th], c, i)]
    /\ UNCHANGED statics
    /\ UNCHANGED <<IdxVars, SSVars, AdvVars, RplyVars, TwinVars, FileVars, WideVars, UpVars>>

ClockTime(th) ==
    /\ thr[th].pc = "idle"
    /\ thr[th].sw = "none"
    /\ thr[th].ops < MaxClockOps
    /\ \E tag \in Timers : thr' = [thr EXCEPT ![th] = time(thr[th], tag)]
    /\ UNCHANGED statics
    /\ UNCHANGED <<IdxVars, SSVars, AdvVars, RplyVars, TwinVars, FileVars, WideVars, UpVars>>

ClockDrop(th) ==
    /\ thr[th].pc = "idle"
    /\ thr[th].sw # "none"
    /\ \E micros \in Elapsed :
          /\ statics' = Stopwatch_drop_acc(statics, thr[th], micros).st
          /\ thr' = [thr EXCEPT ![th] = Stopwatch_drop_acc(statics, thr[th], micros).t]
    /\ UNCHANGED <<IdxVars, SSVars, AdvVars, RplyVars, TwinVars, FileVars, WideVars, UpVars>>

ClockDropCounts(th) ==
    /\ thr[th].pc = "drop"
    /\ statics' = Stopwatch_drop_counts(statics, thr[th]).st
    /\ thr' = [thr EXCEPT ![th] = Stopwatch_drop_counts(statics, thr[th]).t]
    /\ UNCHANGED <<IdxVars, SSVars, AdvVars, RplyVars, TwinVars, FileVars, WideVars, UpVars>>

ClockStats(th) ==
    /\ thr[th].pc = "idle"
    /\ thr[th].ops < MaxClockOps
    /\ \E tag \in Timers :
          \E i \in Visible(statics, thr[th], <<"TIME_COUNTS", tag>>) :
             thr' = [thr EXCEPT ![th] = stats_count(statics, thr[th], tag, i)]
    /\ UNCHANGED statics
    /\ UNCHANGED <<IdxVars, SSVars, AdvVars, RplyVars, TwinVars, FileVars, WideVars, UpVars>>

ClockStatsMicros(th) ==
    /\ thr[th].pc = "stats"
    /\ \E i \in Visible(statics, thr[th], <<"TIME_ACC", thr[th].tag>>) :
          thr' = [thr EXCEPT ![th] = stats_micros(statics, thr[th], i)]
    /\ UNCHANGED statics
    /\ UNCHANGED <<IdxVars, SSVars, AdvVars, RplyVars, TwinVars, FileVars, WideVars, UpVars>>

\* thread th joins the other threads, which have ended: what they did
\* happens before what th does next
ClockJoin(th) ==
    /\ thr[th].pc = "idle"
    /\ ~thr[th].joined
    /\ \A o \in Threads \ {th} : ThreadEnded(thr[o])
    /\ thr' = [thr EXCEPT ![th].joined = TRUE,
                          ![th].seen = [c \in Cells |-> Len(statics[c])]]
    /\ UNCHANGED statics
    /\ UNCHANGED <<IdxVars, SSVars, AdvVars, RplyVars, TwinVars, FileVars, WideVars, UpVars>>

ClockInit ==
    /\ ClockStart
    /\ IdxIdle
    /\ SSIdle
    /\ AdvIdle
    /\ RplyIdle
    /\ TwinIdle
    /\ FileIdle
    /\ WideIdle
    /\ UpIdle

ClockNext ==
    \E th \in Threads :
       \/ ClockCount(th)
       \/ ClockCounts(th)
       \/ ClockTime(th)
       \/ ClockDrop(th)
       \/ ClockDropCounts(th)
       \/ ClockStats(th)
       \/ ClockStatsMicros(th)
       \/ ClockJoin(th)

SpecClock == ClockInit /\ [][ClockNext]_vars

\* what the threads of S have passed to count(c, _), and the Stopwatches of
\* tag t they have dropped
RECURSIVE AddedBy(_, _)
AddedBy(S, c) ==
    IF S = {} THEN 0
    ELSE LET th == CHOOSE x \in S : TRUE IN thr[th].added[c] + AddedBy(S \ {th}, c)

RECURSIVE DroppedBy(_, _)
DroppedBy(S, t) ==
    IF S = {} THEN 0
    ELSE LET th == CHOOSE x \in S : TRUE IN thr[th].dropped[t] + DroppedBy(S \ {th}, t)

\* C29: whatever the interleaving of the threads' calls, no add to a counter
\* is lost (the counter stands at the sum of all amounts passed to count, and
\* that sum is what counts returns to a thread that has joined the others),
\* the value a thread gets from counts never decreases, and the count of a
\* timer grows by exactly one per dropped Stopwatch of its tag.
CountersAggregate ==
    /\ [](\A c \in Counters :
            /\ Newest(statics, <<"COUNTS", c>>) = AddedBy(Threads, c)
            /\ \A th \in Threads :
                  thr[th].joined
                  => SeenValue(statics, thr[th], <<"COUNTS", c>>) = AddedBy(Threads, c))
    /\ [](\A t \in Timers :
            /\ Newest(statics, <<"TIME_COUNTS", t>>) = DroppedBy(Threads, t)
            /\ \A th \in Threads :
                  (thr[th].joined /\ thr[th].pc = "idle")
                  => SeenValue(statics, thr[th], <<"TIME_COUNTS", t>>)
                        = DroppedBy(Threads, t))
    /\ [][\A th \in Threads :
            /\ \A cell \in Cells :
                  SeenValue(statics', thr'[th], cell) >= SeenValue(statics, thr[th], cell)
            /\ (thr[th].pc = "drop" /\ thr'[th].pc = "idle")
               => \A t \in Timers :
                     Newest(statics', <<"TIME_COUNTS", t>>)
                        = Newest(statics, <<"TIME_COUNTS", t>>)
                          + (IF t = thr[th].sw THEN 1 ELSE 0)]_vars

\* thread 2 added 2 and dropped a Stopwatch, thread 1 added 1 after it and
\* read the counter; thread 1 then joined thread 2 and sees the sum and the
\* timer count
CountersAggregate_Witness ==
    /\ thr[1].joined
    /\ thr[1].ops = MaxClockOps
    /\ thr[1].added["EncHashes"] = 1
    /\ thr[2].added["EncHashes"] = 2
    /\ thr[2].dropped["EncodeFrame"] = 1
    /\ statics[<<"COUNTS", "EncHashes">>] = <<0, 2, 3>>
    /\ SeenValue(statics, thr[1], <<"COUNTS", "EncHashes">>) = 3
    /\ SeenValue(statics, thr[1], <<"TIME_COUNTS", "EncodeFrame">>) = 1

(***************************************************************************)
(* SpecUp: a caller holds a Header of either variant and calls upgrade and *)
(* the setters on it, in any order.                                        *)
(***************************************************************************)
\* Header::set_content_crc, set_identifier, set_initial_state_size: through
\* base_mut, the variant stays
Header_set_content_crc(h, crc) == [h EXCEPT !.content_crc = crc]
Header_set_identifier(h, id) == [h EXCEPT !.identifier = id]
Header_set_initial_state_size(h, sz) == [h EXCEPT !.initial_state_size = sz]

UpUpgrade ==
    /\ uhdr' = Header_upgrade(uhdr)
    /\ uop' = "upgrade"
    /\ UNCHANGED <<IdxVars, SSVars, AdvVars, RplyVars, TwinVars, FileVars, WideVars, ClockVars>>

UpSetFrameCount ==
    /\ \E frames \in {0, 3} : uhdr' = Header_set_frame_count(uhdr, frames)
    /\ uop' = "set_frame_count"
    /\ UNCHANGED <<IdxVars, SSVars, AdvVars, RplyVars, TwinVars, FileVars, WideVars, ClockVars>>

UpSetBase ==
    /\ \/ \E crc \in {0, 7} : uhdr' = Header_set_content_crc(uhdr, crc)
       \/ \E id \in {0, 9} : uhdr' = Header_set_identifier(uhdr, id)
       \/ \E sz \in {0, 5} : uhdr' = Header_set_initial_state_size(uhdr, sz)
    /\ uop' = "set_base"
    /\ UNCHANGED <<IdxVars, SSVars, AdvVars, RplyVars, TwinVars, FileVars, WideVars, ClockVars>>

UpInit ==
    /\ \E h \in UpHeaders : UpStart(h)
    /\ IdxIdle
    /\ SSIdle
    /\ AdvIdle
    /\ RplyIdle
    /\ TwinIdle
    /\ FileIdle
    /\ WideIdle
    /\ ClockIdle

UpNext == UpUpgrade \/ UpSetFrameCount \/ UpSetBase

SpecUp == UpInit /\ [][UpNext]_vars

\* C30: upgrade turns a V0V1 header into a V2 header with the same version,
\* content_crc, identifier and initial_state_size, with frame_count,
\* block_size, superblock_size, checkpoint_commit_interval and
\* checkpoint_commit_threshold 0 and compression None; it changes no field
\* of a header that is V2 already, so a second upgrade changes nothing.
UpgradeKeepsBase ==
    [][uop' = "upgrade"
       => IF uhdr.kind = "V0V1"
          THEN /\ uhdr'.kind = "V2"
               /\ uhdr'.version = uhdr.version
               /\ uhdr'.content_crc = uhdr.content_crc
               /\ uhdr'.identifier = uhdr.identifier
               /\ uhdr'.initial_state_size = uhdr.initial_state_size
               /\ uhdr'.frame_count = 0
               /\ uhdr'.block_size = 0
               /\ uhdr'.superblock_size = 0
               /\ uhdr'.checkpoint_commit_interval = 0
               /\ uhdr'.checkpoint_commit_threshold = 0
               /\ uhdr'.checkpoint_compression = Compression_None
               /\ Header_upgrade(uhdr') = uhdr'
          ELSE uhdr' = uhdr]_vars

\* a version 1 header whose base fields had been set was upgraded
UpgradeKeepsBase_Witness ==
    /\ uop = "upgrade"
    /\ uhdr = HeaderV2(1, 7, 5, 9, 0, 0, 0, 0, 0, Compression_None)

(***************************************************************************)
(* SpecDisc: a decoder is opened on a hand-laid stream of version 1 or 2   *)
(* in which one discriminant byte (the compression byte of the header, or  *)
(* the compression or encoding byte of a checkpoint record) may be outside *)
(* its enum, and that may have been cut short; the caller then reads.      *)
(***************************************************************************)
CompressionBytes == {Compression_None, 1, Compression_Zstd}
EncodingBytes == {Encoding_Raw, Encoding_Statestream}

\* the (compression, encoding) pairs of a record that no arm decodes
DiscPairs ==
    {p \in {0, 1, 2, 3, 255} \X {0, 1, 2, 255} :
        p[1] \notin CompressionBytes \/ p[2] \notin EncodingBytes}

\* a frame record whose token is Checkpoint2 and whose record starts with p
DiscItem(keys, p) ==
    FileItem(RplyFrame(keys, <<>>, <<1>>), FrameToken_Checkpoint2,
             CheckpointRecord(p[1], p[2], 1, <<1>>))

\* the good records that may precede it: a state-stream checkpoint
DiscPrefixes == {<<>>, <<FileItem(RplyFrame(<<>>, <<>>, <<1>>), FrameToken_Checkpoint2,
                                 CheckpointRecord(Compression_None, Encoding_Statestream,
                                                  1, FileStatestream))>>}

\* a stream whose header says compression hc and whose initial checkpoint
\* record starts with p
DiscStream(version, hc, p, items) ==
    FileCraftedOf(MAGIC, version, items,
        FileHeaderBytes(MAGIC, version,
            HeaderV2(version, 7,
                     IF version < 2 THEN Len(FileInitialState)
                     ELSE Len(CheckpointRecord(p[1], p[2], 2, FileInitialState)),
                     9, Len(items), 1, 2, 4, 2, hc))
        \o (IF version < 2 THEN FileInitialState
            ELSE CheckpointRecord(p[1], p[2], Len(FileInitialState), FileInitialState)),
        [k \in 1..Len(items) |-> FileItemBytes(version, items[k])])

DiscInit ==
    /\ \/ \E hc \in {1, 2, 3, 255} :
             DiscStream(2, hc, <<Compression_None, Encoding_Raw>>, <<>>)
       \/ \E p \in DiscPairs : DiscStream(2, Compression_None, p, <<>>)
       \/ \E version \in 1..2, pre \in DiscPrefixes, p \in DiscPairs,
             keys \in {<<>>, <<RplyKey>>} :
             DiscStream(version, Compression_None, <<Compression_None, Encoding_Raw>>,
                        pre \o <<DiscItem(keys, p)>>)
    /\ IdxIdle
    /\ SSIdle
    /\ AdvIdle
    /\ \E frame \in FileCallerFrames : FileCaller(frame)
    /\ TwinIdle
    /\ WideIdle
    /\ ClockIdle
    /\ UpIdle

SpecDisc == DiscInit /\ [][FileNext]_vars

\* the offset of the checkpoint record of frame record k
DiscRecord(k) ==
    fmeta.starts[k] + (IF fmeta.version < 2 THEN 0 ELSE 4) + 1
    + 12 * Len(fmeta.frames[k].key_events) + 2 + 8 * Len(fmeta.frames[k].input_events) + 1

\* read_frame failed with status at most n bytes into the record at cp and
\* left the context, frame_number and the caller's frames as they were
DiscRefused(status, cp, n) ==
    /\ rdec'.status = status
    /\ rdec'.pos = cp + n
    /\ rdec'.ss_state = rdec.ss_state
    /\ rdec'.frame_number = rdec.frame_number
    /\ rout' = rout

\* C36: a checkpoint record whose compression byte is outside {0, 1, 2}
\* makes the decoder return Compression, and one whose encoding byte is
\* outside {0, 1} makes it return Encoding; either way no byte of the payload
\* is read, the state-stream context is as before and frame_number is not
\* incremented.  A version 2 header whose compression byte is outside
\* {0, 1, 2} makes new return Compression.
DiscriminantBytes ==
    /\ []((ropen # "none" /\ fmeta.version = 2 /\ Len(fstream) >= HEADERV2_LEN_BYTES)
          => /\ fstream[38] \notin CompressionBytes
                => rdec = ReplayDecoder_failed(HEADERV2_LEN_BYTES, "Compression")
             /\ (/\ fstream[38] \in CompressionBytes
                 /\ Len(fstream) > HEADERV2_LEN_BYTES
                 /\ fstream[41] \notin CompressionBytes)
                => (/\ ropen = "Compression"
                    /\ rdec.pos = HEADERV2_LEN_BYTES + 1
                    /\ rdec.ss_state = Ctx_new(1, 2)
                    /\ rdec.frame_number = 0)
             /\ (/\ fstream[38] \in CompressionBytes
                 /\ Len(fstream) > HEADERV2_LEN_BYTES + 1
                 /\ fstream[41] \in CompressionBytes
                 /\ fstream[42] \notin EncodingBytes)
                => (/\ ropen = "Encoding"
                    /\ rdec.pos = HEADERV2_LEN_BYTES + 2
                    /\ rdec.ss_state = Ctx_new(1, 2)
                    /\ rdec.frame_number = 0))
    /\ [][\A k \in 1..MaxFrames :
            (/\ ropen = "ok"
             /\ rdec.status = "ok"
             /\ fmeta'.reads = fmeta.reads + 1
             /\ k <= Len(fmeta.toks)
             /\ rdec.pos = fmeta.starts[k]
             /\ fmeta.toks[k] = FrameToken_Checkpoint2
             /\ Len(fstream) > DiscRecord(k))
            => /\ fstream[DiscRecord(k) + 1] \notin CompressionBytes
                  => DiscRefused("Compression", DiscRecord(k), 1)
               /\ (/\ fstream[DiscRecord(k) + 1] \in CompressionBytes
                   /\ Len(fstream) > DiscRecord(k) + 1
                   /\ fstream[DiscRecord(k) + 2] \notin EncodingBytes)
                  => DiscRefused("Encoding", DiscRecord(k), 2)]_vars

\* the second read_frame met a record with a good compression byte and the
\* encoding byte 2, after the first had decoded a state-stream checkpoint
DiscriminantBytes_Witness ==
    /\ ropen = "ok"
    /\ rdec.status = "Encoding"
    /\ fmeta.reads = 2
    /\ fmeta.cut = fmeta.full
    /\ rdec.frame_number = 1
    /\ rdec.ss_state.last_state = <<1>>
    /\ fstream[DiscRecord(2) + 1] = Compression_Zstd
    /\ fstream[DiscRecord(2) + 2] = 2
    /\ rdec.pos = DiscRecord(2) + 2

====
